---- MODULE Spec2Model ----
(***************************************************************************)
(* toksmith: byte-pair-encoding tokenizer trainer.                         *)
(*                                                                         *)
(* The model covers Tokenizer.train (tokenizer.py), the two merge engines  *)
(* it can drive (BasicMerger in tokenizer.py, FastMerger in merger.py) and *)
(* the single-process pre-tokenizer (pretokenizer.py).  Two tokenizers,    *)
(* one per engine, are trained on the same arguments, one call after the   *)
(* other, as the parametrised tests of tests/test_tokenizer_train.py do.   *)
(* SpecFile adds Tokenizer.train_from_file for the tokenizer with the fast *)
(* engine; SpecMulti follows a count_tokens_multi call batch by batch and  *)
(* SpecChunks a generate_text_chunks generator read by read.  SpecMerger   *)
(* calls single FastMerger methods on an engine built from a small         *)
(* pretoken counter, as tests/test_merger_step.py does.  SpecState follows *)
(* save_state and load_state on one folder, write by write.  SpecPool      *)
(* follows train_from_file through the life of its worker pool and        *)
(* SpecEncode an encode_pretoken call merge by merge.                      *)
(*                                                                         *)
(* Python values are represented as follows: a str is a sequence of code   *)
(* points, bytes / a tuple of ints is a sequence of naturals, a dict or    *)
(* Counter is a function whose DOMAIN is its key set, a set is a set, the  *)
(* heap list is a bag of HeapEntry records, None is the empty tuple.       *)
(***************************************************************************)
EXTENDS Bags, FiniteSets, Integers, Sequences, TLC

\* ------------------------------------------------------------------ bounds
\* longest training text, in characters
MaxText == 5
\* largest number of merge iterations a training call may ask for
MaxMerges == 2

\* --------------------------------------------------------------- constants
\* size of the initial byte vocabulary, and the first merge id
NumBytes == 256
\* train_from_file reads the file 4096 characters at a time,
FileChunkSize == 4096
\* keeps len(delim) + 64 characters of overlap,
FileOverlapExtra == 64
\* and hands the segments to the workers 100 at a time
FileNChunks == 100

\* code points the training texts are written with: space, a, |
TextChars == {32, 97, 124}
\* the special-token lists a training call may pass: none, "|", and "|", "a|"
SpecialChoices == {<<>>, << <<124>> >>, << <<124>>, <<97, 124>> >>}

None == <<>>

VARIABLES
  text,                 \* argument of train: the text
  vocab_size,           \* argument of train
  special_tokens,       \* argument of train: list of str
  vocab,                \* Tokenizer.vocab, per tokenizer
  merges,               \* Tokenizer.merges, per tokenizer
  ix,                   \* local ix of train, per tokenizer
  pc,                   \* where each tokenizer's train call is
  exc,                  \* the exception a train call raised, or "none"
  pretoken_count,       \* merger.pretoken_count, per tokenizer
  pair_count,           \* FastMerger.pair_count
  pair_to_pretoken_set, \* FastMerger.pair_to_pretoken_set
  pair_heap,            \* FastMerger.pair_heap
  called,               \* the method each tokenizer was called with, or "none"
  pool_created,         \* a multiprocessing.Pool has been created by a training call
  file_opened,          \* the corpus file has been opened by a training call
  chunks,               \* a generate_text_chunks call: its arguments and locals
  multi,                \* a count_tokens_multi call: its arguments and locals
  unit,                 \* a call of one FastMerger method or of _merge: arguments, engine, outcome
  fs,                   \* the folder save_state and load_state work in: file name -> content
  io                    \* the save_state / load_state calls: where each is, what it holds

\* the state of the training calls
train_vars == <<text, vocab_size, special_tokens, vocab, merges, ix, pc, exc,
                pretoken_count, pair_count, pair_to_pretoken_set, pair_heap,
                called, pool_created, file_opened>>

vars == <<train_vars, chunks, multi, unit, fs, io>>

\* a tokenizer is named by the use_fast_merge flag its train call gets
Tokenizers == BOOLEAN

\* ------------------------------------------------------ dict and Counter
EmptyDict == [k \in {} |-> 0]

\* Counter.__getitem__: a missing key reads as 0 and is not inserted
CounterGet(c, k) == IF k \in DOMAIN c THEN c[k] ELSE 0

\* d[k] = v
DictSet(d, k, v) == [x \in (DOMAIN d) \cup {k} |-> IF x = k THEN v ELSE d[x]]

\* Counter.__delitem__ and dict.pop(k, None): no error on a missing key
DictDel(d, k) == [x \in (DOMAIN d) \ {k} |-> d[x]]

\* zip(seq, seq[1:]) as the list of adjacent pairs
Pairs(seq) == [i \in 1..(IF Len(seq) = 0 THEN 0 ELSE Len(seq) - 1) |-> <<seq[i], seq[i + 1]>>]

\* str.encode('utf-8') of one code point below U+0800
Utf8Char(c) == IF c < 128 THEN <<c>> ELSE <<192 + (c \div 64), 128 + (c % 64)>>

RECURSIVE Utf8(_)
\* tuple(tok.encode('utf-8'))
Utf8(s) == IF s = <<>> THEN <<>> ELSE Utf8Char(Head(s)) \o Utf8(Tail(s))

\* ---------------------------------------------------------- pre-tokenizer
\* \s, \p{L}, \p{N} and the rest, over the code points below U+0100
Spaces == {9, 10, 11, 12, 13, 28, 29, 30, 31, 32, 133, 160}
Letters == (65..90) \cup (97..122) \cup {170, 181, 186} \cup ((192..255) \ {215, 247})
Numbers == (48..57) \cup {178, 179, 185, 188, 189, 190}
Others == (0..255) \ (Spaces \cup Letters \cup Numbers)

RECURSIVE RunEnd(_, _, _)
\* first index >= i whose character is outside the class, Len+1 if none
RunEnd(s, i, class) ==
  IF i <= Len(s) /\ s[i] \in class THEN RunEnd(s, i + 1, class) ELSE i

\* " ?C+" at i: the index after the match, 0 if it does not match
OptSpaceRun(s, i, class) ==
  IF s[i] = 32 /\ i + 1 <= Len(s) /\ s[i + 1] \in class THEN RunEnd(s, i + 1, class)
  ELSE IF s[i] \in class THEN RunEnd(s, i, class)
  ELSE 0

\* "'(?:[sdmt]|ll|ve|re)" at i
Contraction(s, i) ==
  IF s[i] # 39 \/ i + 1 > Len(s) THEN 0
  ELSE IF s[i + 1] \in {115, 100, 109, 116} THEN i + 2
  ELSE IF i + 2 <= Len(s) /\ <<s[i + 1], s[i + 2]>> \in {<<108, 108>>, <<118, 101>>, <<114, 101>>}
       THEN i + 3
  ELSE 0

\* "\s+(?!\S)" then "\s+" at i
SpaceRun(s, i) ==
  IF s[i] \notin Spaces THEN 0
  ELSE LET e == RunEnd(s, i, Spaces)
       IN IF e > Len(s) THEN e
          ELSE IF e - 1 > i THEN e - 1
          ELSE e

\* TOKEN_RE.match at i: the index after the match, 0 if none
TokenEnd(s, i) ==
  LET m1 == Contraction(s, i)
      m2 == OptSpaceRun(s, i, Letters)
      m3 == OptSpaceRun(s, i, Numbers)
      m4 == OptSpaceRun(s, i, Others)
  IN IF m1 # 0 THEN m1
     ELSE IF m2 # 0 THEN m2
     ELSE IF m3 # 0 THEN m3
     ELSE IF m4 # 0 THEN m4
     ELSE SpaceRun(s, i)

RECURSIVE FindIter(_, _)
\* [m.group() for m in TOKEN_RE.finditer(text)], scanning from index i
FindIter(s, i) ==
  IF i > Len(s) THEN <<>>
  ELSE LET e == TokenEnd(s, i)
       IN IF e = 0 THEN FindIter(s, i + 1)
          ELSE <<SubSeq(s, i, e - 1)>> \o FindIter(s, e)

\* number of positions of list l holding x
Occurrences(l, x) == Cardinality({i \in 1..Len(l) : l[i] = x})

count_tokens(s) ==
  LET ms == FindIter(s, 1)
  IN [tok \in {ms[i] : i \in 1..Len(ms)} |-> Occurrences(ms, tok)]

count_tokens_single(s) ==
  LET c == count_tokens(s)
  IN [pt \in {Utf8(tok) : tok \in DOMAIN c} |->
        c[CHOOSE tok \in DOMAIN c : Utf8(tok) = pt]]

\* does list-of-chars p occur in s at index i
MatchesAt(s, i, p) == i + Len(p) - 1 <= Len(s) /\ SubSeq(s, i, i + Len(p) - 1) = p

RECURSIVE StripFrom(_, _, _)
\* re.sub('(?:s1|s2|...)+', '', text), scanning from index i
StripFrom(s, i, specials) ==
  IF i > Len(s) THEN <<>>
  ELSE LET hits == {j \in 1..Len(specials) : specials[j] # <<>> /\ MatchesAt(s, i, specials[j])}
       IN IF hits = {} THEN <<s[i]>> \o StripFrom(s, i + 1, specials)
          ELSE LET j == CHOOSE j \in hits : \A k \in hits : j <= k
               IN StripFrom(s, i + Len(specials[j]), specials)

\* dict.update(other): the values of other replace those of total
DictUpdate(total, other) ==
  [k \in (DOMAIN total) \cup (DOMAIN other) |-> IF k \in DOMAIN other THEN other[k] ELSE total[k]]

\* Counter.update(other): counts of equal keys are added
CounterUpdate(total, other) ==
  [k \in (DOMAIN total) \cup (DOMAIN other) |-> CounterGet(total, k) + CounterGet(other, k)]

\* Counter({tuple(tok.encode('utf-8')): cnt for tok, cnt in c.items()})
EncodeKeys(c) ==
  [pt \in {Utf8(tok) : tok \in DOMAIN c} |-> c[CHOOSE tok \in DOMAIN c : Utf8(tok) = pt]]

\* the tasks of pool.imap_unordered(count_tokens, text_iter, chunksize=n_chunks):
\* batch b holds the items (b-1)*n_chunks+1 .. b*n_chunks of text_iter
Batches(text_iter, n_chunks) == 1..((Len(text_iter) + n_chunks - 1) \div n_chunks)

BatchItems(text_iter, n_chunks, b) ==
  {i \in 1..Len(text_iter) : (b - 1) * n_chunks < i /\ i <= b * n_chunks}

RECURSIVE UpdateEach(_, _, _)
\* total.update(count_tokens(text_iter[i])) for every item i of the set items
UpdateEach(total, text_iter, items) ==
  IF items = {} THEN total
  ELSE LET i == CHOOSE i \in items : \A j \in items : i <= j
       IN UpdateEach(CounterUpdate(total, count_tokens(text_iter[i])), text_iter, items \ {i})

RECURSIVE DeliverEach(_, _, _, _, _)
\* the for loop of count_tokens_multi when the batches arrive in the given order
DeliverEach(total, text_iter, n_chunks, order, k) ==
  IF k > Len(order) THEN total
  ELSE DeliverEach(UpdateEach(total, text_iter, BatchItems(text_iter, n_chunks, order[k])),
                   text_iter, n_chunks, order, k + 1)

\* count_tokens_multi(text_iter, n_proc, n_chunks) when the batches arrive in the given order
count_tokens_multi(text_iter, n_chunks, order) ==
  EncodeKeys(DeliverEach(EmptyDict, text_iter, n_chunks, order, 1))

RECURSIVE DelimEnd(_, _, _)
\* the delimiter (?:s1|...|sk)+ matched at index i of s: the index after the
\* match, i itself if no special token matches there
DelimEnd(s, i, specials) ==
  LET hits == {j \in 1..Len(specials) : MatchesAt(s, i, specials[j])}
  IN IF i > Len(s) \/ hits = {} THEN i
     ELSE LET j == CHOOSE j \in hits : \A k \in hits : j <= k
          IN DelimEnd(s, i + Len(specials[j]), specials)

RECURSIVE Finditer(_, _, _)
\* [m.span() for m in regex.finditer(delimiter, s)] from index i, spans 0-based
Finditer(s, i, specials) ==
  IF i > Len(s) THEN <<>>
  ELSE LET e == DelimEnd(s, i, specials)
       IN IF e = i THEN Finditer(s, i + 1, specials)
          ELSE << <<i - 1, e - 1>> >> \o Finditer(s, e, specials)

\* s[a:b]
Slice(s, a, b) == SubSeq(s, a + 1, b)

\* a yield that is not guarded by "if segment:"
YieldAlways(out, segment) == Append(out, segment)

\* the yield of a segment, guarded by "if segment:"
Yield(out, segment) == IF segment # <<>> THEN Append(out, segment) ELSE out

RECURSIVE ScanBeforeEof(_, _, _, _, _, _)
\* the for loop of generate_text_chunks while the file is not finished, from match k
ScanBeforeEof(current_chunk, ms, k, cur_end, out, effective_size) ==
  IF k > Len(ms) THEN [cur_end |-> cur_end, out |-> out]
  ELSE LET start == ms[k][1]
           end == ms[k][2]
           out2 == Yield(out, Slice(current_chunk, cur_end, start))
       IN IF start >= effective_size THEN [cur_end |-> end, out |-> out2]
          ELSE ScanBeforeEof(current_chunk, ms, k + 1, end, out2, effective_size)

RECURSIVE ScanAtEofKeepsDelimiter(_, _, _, _, _)
\* ScanAtEof cutting the segment at the end of the match instead of its start
ScanAtEofKeepsDelimiter(current_chunk, ms, k, cur_end, out) ==
  IF k > Len(ms) THEN [cur_end |-> cur_end, out |-> out]
  ELSE ScanAtEofKeepsDelimiter(current_chunk, ms, k + 1, ms[k][2],
                               Yield(out, Slice(current_chunk, cur_end, ms[k][2])))

RECURSIVE ScanAtEof(_, _, _, _, _)
\* the for loop of generate_text_chunks at the end of the file, from match k
ScanAtEof(current_chunk, ms, k, cur_end, out) ==
  IF k > Len(ms) THEN [cur_end |-> cur_end, out |-> out]
  ELSE ScanAtEof(current_chunk, ms, k + 1, ms[k][2],
                 Yield(out, Slice(current_chunk, cur_end, ms[k][1])))

\* the generator object generate_text_chunks(file_path, delimiter, chunk_size,
\* overlap_size) returns, before its first resumption; file is the file's text
Generator(file, specials, chunk_size, overlap_size) ==
  [file |-> file, delimiter |-> specials, chunk_size |-> chunk_size,
   overlap_size |-> overlap_size, pos |-> 0, buffer |-> <<>>,
   file_is_finished |-> FALSE, out |-> <<>>, pc |-> "created"]

\* one iteration of the while loop of generate_text_chunks
ChunkIter(g) ==
  LET new_read == Slice(g.file, g.pos, IF g.pos + g.chunk_size < Len(g.file)
                                        THEN g.pos + g.chunk_size ELSE Len(g.file))
      finished == new_read = <<>>
      current_chunk == g.buffer \o new_read
      effective_size == Len(current_chunk) - g.overlap_size
      buffer == IF effective_size <= 0 THEN current_chunk ELSE g.buffer
      ms == Finditer(current_chunk, 1, g.delimiter)
      read == [g EXCEPT !.pos = @ + Len(new_read), !.file_is_finished = finished,
                        !.buffer = buffer]
  IN IF effective_size <= 0 /\ ~finished THEN read
     ELSE IF ~finished
     THEN LET r == ScanBeforeEof(current_chunk, ms, 1, 0, g.out, effective_size)
          IN [read EXCEPT !.out = r.out,
                          !.buffer = Slice(current_chunk, r.cur_end, Len(current_chunk))]
     ELSE LET r == ScanAtEof(current_chunk, ms, 1, 0, g.out)
          IN [read EXCEPT !.out = IF r.cur_end < Len(current_chunk)
                                  THEN Append(r.out, Slice(current_chunk, r.cur_end, Len(current_chunk)))
                                  ELSE r.out]

RECURSIVE Exhaust(_)
\* the generator run until it is exhausted
Exhaust(g) == IF g.file_is_finished THEN g ELSE Exhaust(ChunkIter(g))

\* list(generate_text_chunks(file_path, delimiter, chunk_size, overlap_size))
generate_text_chunks(file, specials, chunk_size, overlap_size) ==
  Exhaust(Generator(file, specials, chunk_size, overlap_size)).out

\* ------------------------------------------------------------- merger.py
\* _process_pretoken folded over the pairs of one pretoken, from index i
RECURSIVE _process_pretoken(_, _, _, _)
_process_pretoken(pretoken, freq, idx, i) ==
  IF i > Len(Pairs(pretoken)) THEN idx
  ELSE LET pair == Pairs(pretoken)[i]
           sets == idx.pair_to_pretoken_set
       IN _process_pretoken(pretoken, freq,
            [pair_count |-> DictSet(idx.pair_count, pair, CounterGet(idx.pair_count, pair) + freq),
             pair_to_pretoken_set |->
               IF pair \in DOMAIN sets THEN DictSet(sets, pair, sets[pair] \cup {pretoken})
               ELSE DictSet(sets, pair, {pretoken})],
            i + 1)

RECURSIVE BuildFrom(_, _, _)
BuildFrom(pretokens, todo, idx) ==
  IF todo = {} THEN idx
  ELSE LET pt == CHOOSE pt \in todo : TRUE
       IN BuildFrom(pretokens, todo \ {pt}, _process_pretoken(pt, pretokens[pt], idx, 1))

_build_pair_index(pretokens) ==
  BuildFrom(pretokens, DOMAIN pretokens, [pair_count |-> EmptyDict, pair_to_pretoken_set |-> EmptyDict])

HeapEntry(count, pair) ==
  [sort_index |-> 0 - count,
   reverse_pair |-> <<0 - pair[1], 0 - pair[2]>>,
   original_pair |-> pair]

\* tuple comparison of two pairs of ints
TupleLess(a, b) == a[1] < b[1] \/ (a[1] = b[1] /\ a[2] < b[2])

\* HeapEntry.__lt__ as dataclass(order=True) generates it: by sort_index, then reverse_pair
EntryLess(a, b) ==
  \/ a.sort_index < b.sort_index
  \/ a.sort_index = b.sort_index /\ TupleLess(a.reverse_pair, b.reverse_pair)

\* the entry heapq.heappop returns: the least one
HeapTop(heap) ==
  CHOOSE e \in BagToSet(heap) : \A o \in BagToSet(heap) : ~EntryLess(o, e)

\* heappush keeping one copy of an entry the heap already holds
HeapPushOnce(heap, entry) == IF BagIn(entry, heap) THEN heap ELSE heap (+) SetToBag({entry})

heappush(heap, entry) == heap (+) SetToBag({entry})

\* FastMerger.__init__: the engine state as a record
FastMerger(pretokens) ==
  LET idx == _build_pair_index(pretokens)
  IN [pretoken_count |-> pretokens,
      pair_count |-> idx.pair_count,
      pair_to_pretoken_set |-> idx.pair_to_pretoken_set,
      pair_heap |-> SetToBag({HeapEntry(idx.pair_count[p], p) : p \in DOMAIN idx.pair_count}),
      exc |-> "none"]

Raise(fm, e) == [fm EXCEPT !.exc = e]

RECURSIVE PopUntilFresh(_)
\* the while loop of _most_common_pair
PopUntilFresh(fm) ==
  IF fm.pair_heap = EmptyBag THEN [fm |-> Raise(fm, "IndexError"), pair |-> None, count |-> 0]
  ELSE LET entry == HeapTop(fm.pair_heap)
           rest == [fm EXCEPT !.pair_heap = @ (-) SetToBag({entry})]
           pair == entry.original_pair
           count == 0 - entry.sort_index
       IN IF CounterGet(fm.pair_count, pair) = count
          THEN [fm |-> rest, pair |-> pair, count |-> count]
          ELSE PopUntilFresh(rest)

_most_common_pair(fm) ==
  IF DOMAIN fm.pair_count = {} \/ fm.pair_heap = EmptyBag
  THEN [fm |-> Raise(fm, "AssertionError"), pair |-> None, count |-> 0]
  ELSE PopUntilFresh(fm)

\* _update_pair replacing the pair's heap entry instead of leaving it as a stale one
UpdatePairReplacesEntry(fm, pair, freq) ==
  IF freq = 0 THEN fm
  ELSE LET old == CounterGet(fm.pair_count, pair)
           cnt == old + freq
       IN IF cnt > 0
          THEN [fm EXCEPT !.pair_count = DictSet(@, pair, cnt),
                          !.pair_heap = heappush(@ (-) SetToBag({HeapEntry(old, pair)}),
                                                 HeapEntry(cnt, pair))]
          ELSE [fm EXCEPT !.pair_count = DictDel(@, pair),
                          !.pair_to_pretoken_set = DictDel(@, pair)]

\* _update_pair dropping the count only, not the adjacency set
UpdatePairKeepsSet(fm, pair, freq) ==
  IF freq = 0 THEN fm
  ELSE LET cnt == CounterGet(fm.pair_count, pair) + freq
       IN IF cnt > 0
          THEN [fm EXCEPT !.pair_count = DictSet(@, pair, cnt),
                          !.pair_heap = heappush(@, HeapEntry(cnt, pair))]
          ELSE [fm EXCEPT !.pair_count = DictDel(@, pair)]

\* _update_pair without the early return on freq == 0
UpdatePairNoZeroCheck(fm, pair, freq) ==
  LET cnt == CounterGet(fm.pair_count, pair) + freq
  IN IF cnt > 0
     THEN [fm EXCEPT !.pair_count = DictSet(@, pair, cnt),
                     !.pair_heap = heappush(@, HeapEntry(cnt, pair))]
     ELSE [fm EXCEPT !.pair_count = DictDel(@, pair),
                     !.pair_to_pretoken_set = DictDel(@, pair)]

_update_pair(fm, pair, freq) ==
  IF freq = 0 THEN fm
  ELSE LET cnt == CounterGet(fm.pair_count, pair) + freq
       IN IF cnt > 0
          THEN [fm EXCEPT !.pair_count = DictSet(@, pair, cnt),
                          !.pair_heap = heappush(@, HeapEntry(cnt, pair))]
          ELSE [fm EXCEPT !.pair_count = DictDel(@, pair),
                          !.pair_to_pretoken_set = DictDel(@, pair)]

\* s = self.pair_to_pretoken_set[pair]; if s is not None: s.discard(old_seq)
DiscardOld(fm, pair, old_seq) ==
  IF pair \notin DOMAIN fm.pair_to_pretoken_set THEN Raise(fm, "KeyError")
  ELSE [fm EXCEPT !.pair_to_pretoken_set[pair] = @ \ {old_seq}]

\* one outgoing neighbour pair: decrement, then drop old_seq from its set
Outgoing(fm, pair, seq_freq, old_seq) ==
  DiscardOld(_update_pair(fm, pair, 0 - seq_freq), pair, old_seq)

\* the body of "found top_pair position" at index i, new_builder being nb
MergeAt(fm, old_seq, seq_freq, top_pair, new_ix, i, nb) ==
  LET hasU == nb # <<>>
      u == nb[Len(nb)]
      hasV == i + 2 <= Len(old_seq)
      v == old_seq[i + 2]
      f1 == IF hasU THEN Outgoing(fm, <<u, top_pair[1]>>, seq_freq, old_seq) ELSE fm
      f2 == IF hasV /\ f1.exc = "none" THEN Outgoing(f1, <<top_pair[2], v>>, seq_freq, old_seq) ELSE f1
      f3 == IF hasU /\ f2.exc = "none" THEN _update_pair(f2, <<u, new_ix>>, seq_freq) ELSE f2
      f4 == IF hasV /\ f3.exc = "none" THEN _update_pair(f3, <<new_ix, v>>, seq_freq) ELSE f3
  IN f4

RECURSIVE MergeScan(_, _, _, _, _, _, _)
\* the while loop of _merge_sequence; indices are 1-based
MergeScan(fm, old_seq, seq_freq, top_pair, new_ix, i, nb) ==
  IF fm.exc # "none" \/ i > Len(old_seq) THEN [fm |-> fm, new_builder |-> nb]
  ELSE IF i + 1 <= Len(old_seq) /\ <<old_seq[i], old_seq[i + 1]>> = top_pair
       THEN MergeScan(MergeAt(fm, old_seq, seq_freq, top_pair, new_ix, i, nb),
                      old_seq, seq_freq, top_pair, new_ix, i + 2, Append(nb, new_ix))
       ELSE MergeScan(fm, old_seq, seq_freq, top_pair, new_ix, i + 1, Append(nb, old_seq[i]))

RECURSIVE ReadjustSwapped(_, _, _, _)
\* Readjust with the two sequences mixed up: adds old_seq, discards new_seq
ReadjustSwapped(sets, new_seq, old_seq, i) ==
  IF i > Len(Pairs(new_seq)) THEN sets
  ELSE LET pair == Pairs(new_seq)[i]
           s == IF pair \in DOMAIN sets THEN sets[pair] ELSE {}
       IN ReadjustSwapped(DictSet(sets, pair, (s \cup {old_seq}) \ {new_seq}), new_seq, old_seq, i + 1)

RECURSIVE ReadjustKnownPairs(_, _, _, _)
\* Readjust without the setdefault: only the pairs that already have a set get new_seq
ReadjustKnownPairs(sets, new_seq, old_seq, i) ==
  IF i > Len(Pairs(new_seq)) THEN sets
  ELSE LET pair == Pairs(new_seq)[i]
       IN ReadjustKnownPairs(IF pair \in DOMAIN sets
                             THEN DictSet(sets, pair, (sets[pair] \cup {new_seq}) \ {old_seq})
                             ELSE sets,
                             new_seq, old_seq, i + 1)

RECURSIVE Readjust(_, _, _, _)
\* the final loop of _merge_sequence over zip(new_seq, new_seq[1:]), from index i
Readjust(sets, new_seq, old_seq, i) ==
  IF i > Len(Pairs(new_seq)) THEN sets
  ELSE LET pair == Pairs(new_seq)[i]
           s == IF pair \in DOMAIN sets THEN sets[pair] ELSE {}
       IN Readjust(DictSet(sets, pair, (s \cup {new_seq}) \ {old_seq}), new_seq, old_seq, i + 1)

\* _merge_sequence reading the frequency back from pretoken_count after the del
MergeSequenceStaleFreq(fm, old_seq, seq_freq, top_pair, new_ix) ==
  IF ~(seq_freq > 0) THEN Raise(fm, "AssertionError")
  ELSE LET r == MergeScan(fm, old_seq, seq_freq, top_pair, new_ix, 1, <<>>)
           new_seq == r.new_builder
       IN IF r.fm.exc # "none" THEN r.fm
          ELSE [r.fm EXCEPT
                  !.pretoken_count = DictSet(DictDel(@, old_seq), new_seq,
                                             CounterGet(DictDel(@, old_seq), old_seq)),
                  !.pair_to_pretoken_set = Readjust(@, new_seq, old_seq, 1)]

_merge_sequence(fm, old_seq, seq_freq, top_pair, new_ix) ==
  IF ~(seq_freq > 0) THEN Raise(fm, "AssertionError")
  ELSE LET r == MergeScan(fm, old_seq, seq_freq, top_pair, new_ix, 1, <<>>)
           new_seq == r.new_builder
       IN IF r.fm.exc # "none" THEN r.fm
          ELSE [r.fm EXCEPT
                  !.pretoken_count = DictSet(DictDel(@, old_seq), new_seq, seq_freq),
                  !.pair_to_pretoken_set = Readjust(@, new_seq, old_seq, 1)]

\* every order in which a Python set or dict may be iterated
Orders(S) ==
  {o \in [1..Cardinality(S) -> S] : \A i, j \in 1..Cardinality(S) : i # j => o[i] # o[j]}

\* the outcome of a call that leaves the merger as fm: value returned unless it raised
Returned(fm, value) == [fm |-> fm, ret |-> IF fm.exc = "none" THEN value ELSE None]

RECURSIVE MergeEach(_, _, _, _, _)
\* step's loop over the snapshot of pair_to_pretoken_set[top_pair], from index i
MergeEach(fm, order, i, top_pair, new_id) ==
  IF fm.exc # "none" \/ i > Len(order) THEN fm
  ELSE MergeEach(_merge_sequence(fm, order[i], CounterGet(fm.pretoken_count, order[i]), top_pair, new_id),
                 order, i + 1, top_pair, new_id)

\* FastMerger.step(new_id): every outcome [fm, ret] the call can have
step(fm, new_id) ==
  IF DOMAIN fm.pair_count = {} THEN {[fm |-> fm, ret |-> None]}
  ELSE LET top == _most_common_pair(fm)
       IN IF top.fm.exc # "none" THEN {[fm |-> top.fm, ret |-> None]}
          ELSE IF top.pair \notin DOMAIN top.fm.pair_to_pretoken_set
               THEN {[fm |-> Raise(top.fm, "KeyError"), ret |-> None]}
          ELSE {Returned(MergeEach(top.fm, order, 1, top.pair, new_id), top.pair) :
                   order \in Orders(top.fm.pair_to_pretoken_set[top.pair])}

\* ---------------------------------------------------------- tokenizer.py
\* pair_counts.get(p, 0) + cnt summed over every pretoken
_pairs_count(pretokens) ==
  LET all == UNION {{Pairs(pt)[i] : i \in 1..Len(Pairs(pt))} : pt \in DOMAIN pretokens}
      Sum[todo \in SUBSET (DOMAIN pretokens), p \in all] ==
        IF todo = {} THEN 0
        ELSE LET pt == CHOOSE pt \in todo : TRUE
             IN Occurrences(Pairs(pt), p) * pretokens[pt] + Sum[todo \ {pt}, p]
  IN [p \in all |-> Sum[DOMAIN pretokens, p]]

RECURSIVE MergeFrom(_, _, _, _)
\* the while loop of _merge, from index i
MergeFrom(seq, pair, new_ix, i) ==
  IF i > Len(seq) THEN <<>>
  ELSE IF i + 1 <= Len(seq) /\ <<seq[i], seq[i + 1]>> = pair
       THEN <<new_ix>> \o MergeFrom(seq, pair, new_ix, i + 2)
       ELSE <<seq[i]>> \o MergeFrom(seq, pair, new_ix, i + 1)

_merge(seq, pair, new_ix) == MergeFrom(seq, pair, new_ix, 1)

\* max(pair_counts.items(), key=lambda it: [it[1], it[0]])
MaxPair(pair_counts) ==
  CHOOSE p \in DOMAIN pair_counts :
    \A q \in DOMAIN pair_counts :
      \/ pair_counts[q] < pair_counts[p]
      \/ pair_counts[q] = pair_counts[p] /\ (q = p \/ TupleLess(q, p))

\* RewriteEach looking at the first pretoken of the iteration order only
RewriteEachFirstOnly(bm, order, i, top_pair, new_ix) ==
  IF bm.exc # "none" \/ i > Len(order) THEN bm
  ELSE LET pt == order[i]
           new_pt == _merge(pt, top_pair, new_ix)
       IN IF new_pt = pt THEN bm
          ELSE IF new_pt \in DOMAIN bm.pretoken_count THEN Raise(bm, "AssertionError")
          ELSE [bm EXCEPT !.pretoken_count = DictSet(DictDel(@, pt), new_pt, @[pt])]

RECURSIVE RewriteEachCountsOne(_, _, _, _, _)
\* RewriteEach entering the new sequence with a count of 1
RewriteEachCountsOne(bm, order, i, top_pair, new_ix) ==
  IF bm.exc # "none" \/ i > Len(order) THEN bm
  ELSE LET pt == order[i]
           new_pt == _merge(pt, top_pair, new_ix)
       IN IF new_pt = pt THEN RewriteEachCountsOne(bm, order, i + 1, top_pair, new_ix)
          ELSE IF new_pt \in DOMAIN bm.pretoken_count THEN Raise(bm, "AssertionError")
          ELSE RewriteEachCountsOne([bm EXCEPT !.pretoken_count = DictSet(DictDel(@, pt), new_pt, 1)],
                                    order, i + 1, top_pair, new_ix)

RECURSIVE RewriteEach(_, _, _, _, _)
\* BasicMerger.step's loop over list(self.pretoken_count), from index i
RewriteEach(bm, order, i, top_pair, new_ix) ==
  IF bm.exc # "none" \/ i > Len(order) THEN bm
  ELSE LET pt == order[i]
           new_pt == _merge(pt, top_pair, new_ix)
       IN IF new_pt = pt THEN RewriteEach(bm, order, i + 1, top_pair, new_ix)
          ELSE IF new_pt \in DOMAIN bm.pretoken_count THEN Raise(bm, "AssertionError")
          ELSE RewriteEach([bm EXCEPT !.pretoken_count = DictSet(DictDel(@, pt), new_pt, @[pt])],
                           order, i + 1, top_pair, new_ix)

\* BasicMerger.step(ix): every outcome [fm, ret] the call can have
BasicMerger_step(bm, new_ix) ==
  LET pair_counts == _pairs_count(bm.pretoken_count)
  IN IF DOMAIN pair_counts = {} THEN {[fm |-> bm, ret |-> None]}
     ELSE LET top_pair == MaxPair(pair_counts)
          IN {Returned(RewriteEach(bm, order, 1, top_pair, new_ix), top_pair) :
                order \in Orders(DOMAIN bm.pretoken_count)}

\* BasicMerger.__init__
BasicMerger(pretokens) == [pretoken_count |-> pretokens, exc |-> "none"]

\* Tokenizer._reset_state: the vocab it sets
BaseVocab == [i \in 0..(NumBytes - 1) |-> <<i>>]

\* the text train pre-tokenizes: special tokens stripped when any are given
Stripped(txt, specials) == IF specials # <<>> THEN StripFrom(txt, 1, specials) ELSE txt

min_size == NumBytes + Len(special_tokens)

\* num_iters that leaves no room for the special tokens
NumItersNoRoom == vocab_size - NumBytes

num_iters == vocab_size - min_size

\* the merger object of tokenizer t, as a record
Merger(t) ==
  IF t THEN [pretoken_count |-> pretoken_count[t], pair_count |-> pair_count,
             pair_to_pretoken_set |-> pair_to_pretoken_set, pair_heap |-> pair_heap,
             exc |-> "none"]
  ELSE [pretoken_count |-> pretoken_count[t], exc |-> "none"]

\* the merger object of tokenizer t becomes the record fm
SetMerger(t, fm) ==
  /\ pretoken_count' = [pretoken_count EXCEPT ![t] = fm.pretoken_count]
  /\ IF t THEN /\ pair_count' = fm.pair_count
               /\ pair_to_pretoken_set' = fm.pair_to_pretoken_set
               /\ pair_heap' = fm.pair_heap
     ELSE UNCHANGED <<pair_count, pair_to_pretoken_set, pair_heap>>

\* train is one blocking call: no other tokenizer is inside its own call
NoOtherCall(t) == \A o \in Tokenizers \ {t} : pc[o] # "loop"

Texts == UNION {[1..n -> TextChars] : n \in 0..MaxText}

\* what a tokenizer holds when a training call starts: the state __init__ leaves,
\* or the state a caller corrupted (tests/test_tokenizer_train.py 136-137)
PriorStates ==
  {[vocab |-> BaseVocab, merges |-> <<>>],
   [vocab |-> (999 :> <<88, 88, 88>>), merges |-> <<<<1, 2>>, <<3, 4>>>>]}

\* no generate_text_chunks / count_tokens_multi call of its own is being followed
NoCall == [pc |-> "none"]

\* the tokenizers and the arguments of the training calls, before any call
InitTrain ==
  /\ text \in Texts
  /\ special_tokens \in SpecialChoices
  /\ vocab_size \in (NumBytes + Len(special_tokens) - 1)..(NumBytes + Len(special_tokens) + MaxMerges)
  /\ \E prior \in PriorStates :
       /\ vocab = [t \in Tokenizers |-> prior.vocab]
       /\ merges = [t \in Tokenizers |-> prior.merges]
  /\ ix = [t \in Tokenizers |-> NumBytes]
  /\ pc = [t \in Tokenizers |-> "idle"]
  /\ exc = [t \in Tokenizers |-> "none"]
  /\ pretoken_count = [t \in Tokenizers |-> EmptyDict]
  /\ pair_count = EmptyDict
  /\ pair_to_pretoken_set = EmptyDict
  /\ pair_heap = EmptyBag
  /\ called = [t \in Tokenizers |-> "none"]
  /\ pool_created = FALSE
  /\ file_opened = FALSE

Init ==
  /\ InitTrain
  /\ chunks = NoCall
  /\ multi = NoCall
  /\ unit = NoCall
  /\ fs = NoCall
  /\ io = NoCall

\* Train checking vocab_size before it resets the state
TrainChecksBeforeReset(t) ==
  /\ pc[t] = "idle"
  /\ NoOtherCall(t)
  /\ vocab_size < min_size
  /\ called' = [called EXCEPT ![t] = "train"]
  /\ pc' = [pc EXCEPT ![t] = "raised"]
  /\ exc' = [exc EXCEPT ![t] = "ValueError"]
  /\ UNCHANGED <<text, vocab_size, special_tokens, vocab, merges, ix, pretoken_count,
                 pair_count, pair_to_pretoken_set, pair_heap, pool_created, file_opened,
                 chunks, multi, unit, fs, io>>

\* Train resetting the vocabulary only, not the list of merges
TrainKeepsMerges(t) ==
  /\ pc[t] = "idle"
  /\ NoOtherCall(t)
  /\ called' = [called EXCEPT ![t] = "train"]
  /\ vocab' = [vocab EXCEPT ![t] = BaseVocab]
  /\ IF vocab_size < min_size
     THEN /\ pc' = [pc EXCEPT ![t] = "raised"]
          /\ exc' = [exc EXCEPT ![t] = "ValueError"]
          /\ UNCHANGED <<ix, pretoken_count, pair_count, pair_to_pretoken_set, pair_heap>>
     ELSE LET pretokens == count_tokens_single(Stripped(text, special_tokens))
          IN /\ SetMerger(t, IF t THEN FastMerger(pretokens) ELSE BasicMerger(pretokens))
             /\ ix' = [ix EXCEPT ![t] = NumBytes]
             /\ pc' = [pc EXCEPT ![t] = "loop"]
             /\ exc' = exc
  /\ UNCHANGED <<text, vocab_size, special_tokens, merges, pool_created, file_opened,
                 chunks, multi, unit, fs, io>>

\* train, from its entry to the start of the merge loop (tokenizer.py 220-238)
Train(t) ==
  /\ pc[t] = "idle"
  /\ NoOtherCall(t)
  /\ called' = [called EXCEPT ![t] = "train"]
  /\ vocab' = [vocab EXCEPT ![t] = BaseVocab]
  /\ merges' = [merges EXCEPT ![t] = <<>>]
  /\ IF vocab_size < min_size
     THEN /\ pc' = [pc EXCEPT ![t] = "raised"]
          /\ exc' = [exc EXCEPT ![t] = "ValueError"]
          /\ UNCHANGED <<ix, pretoken_count, pair_count, pair_to_pretoken_set, pair_heap>>
     ELSE LET pretokens == count_tokens_single(Stripped(text, special_tokens))
          IN /\ SetMerger(t, IF t THEN FastMerger(pretokens) ELSE BasicMerger(pretokens))
             /\ ix' = [ix EXCEPT ![t] = NumBytes]
             /\ pc' = [pc EXCEPT ![t] = "loop"]
             /\ exc' = exc
  /\ UNCHANGED <<text, vocab_size, special_tokens, pool_created, file_opened, chunks, multi, unit, fs, io>>

\* MergedBytes with the two halves concatenated in the wrong order
MergedBytesSwapped(v, top_pair) == v[top_pair[2]] \o v[top_pair[1]]

\* self.vocab[top_pair[0]] + self.vocab[top_pair[1]]
MergedBytes(v, top_pair) == v[top_pair[1]] \o v[top_pair[2]]

\* one iteration of train's merge loop (tokenizer.py 239-256)
TrainIter(t) ==
  /\ pc[t] = "loop"
  /\ ix[t] - NumBytes < num_iters
  /\ \E out \in (IF t THEN step(Merger(t), ix[t]) ELSE BasicMerger_step(Merger(t), ix[t])) :
       LET top_pair == out.ret
       IN /\ SetMerger(t, out.fm)
          /\ IF out.fm.exc # "none"
             THEN /\ pc' = [pc EXCEPT ![t] = "raised"]
                  /\ exc' = [exc EXCEPT ![t] = out.fm.exc]
                  /\ UNCHANGED <<merges, vocab, ix>>
             ELSE /\ merges' = [merges EXCEPT ![t] = Append(@, top_pair)]
                  /\ IF top_pair = None
                     THEN /\ pc' = [pc EXCEPT ![t] = "raised"]
                          /\ exc' = [exc EXCEPT ![t] = "TypeError"]
                          /\ UNCHANGED <<vocab, ix>>
                     ELSE IF top_pair[1] \notin DOMAIN vocab[t] \/ top_pair[2] \notin DOMAIN vocab[t]
                     THEN /\ pc' = [pc EXCEPT ![t] = "raised"]
                          /\ exc' = [exc EXCEPT ![t] = "KeyError"]
                          /\ UNCHANGED <<vocab, ix>>
                     ELSE /\ vocab' = [vocab EXCEPT ![t] = DictSet(@, ix[t], MergedBytes(@, top_pair))]
                          /\ ix' = [ix EXCEPT ![t] = @ + 1]
                          /\ UNCHANGED <<pc, exc>>
  /\ UNCHANGED <<text, vocab_size, special_tokens, called, pool_created, file_opened,
                 chunks, multi, unit, fs, io>>

RECURSIVE AddSpecialsShifted(_, _, _, _)
\* AddSpecials numbering the special tokens from ix + 1
AddSpecialsShifted(v, specials, start, j) ==
  IF j > Len(specials) THEN v
  ELSE AddSpecialsShifted(DictSet(v, start + j, Utf8(specials[j])), specials, start, j + 1)

RECURSIVE AddSpecials(_, _, _, _)
\* for i, s_tok in enumerate(special_tokens, ix): vocab[i] = bytes(s_tok), from index j
AddSpecials(v, specials, start, j) ==
  IF j > Len(specials) THEN v
  ELSE AddSpecials(DictSet(v, start + j - 1, Utf8(specials[j])), specials, start, j + 1)

\* the end of train: the loop is over, the special tokens are added (tokenizer.py 257-259)
TrainFinish(t) ==
  /\ pc[t] = "loop"
  /\ ~(ix[t] - NumBytes < num_iters)
  /\ vocab' = [vocab EXCEPT ![t] = AddSpecials(@, special_tokens, ix[t], 1)]
  /\ pc' = [pc EXCEPT ![t] = "done"]
  /\ UNCHANGED <<text, vocab_size, special_tokens, merges, ix, exc,
                 pretoken_count, pair_count, pair_to_pretoken_set, pair_heap,
                 called, pool_created, file_opened, chunks, multi, unit, fs, io>>

Next == \E t \in Tokenizers : Train(t) \/ TrainIter(t) \/ TrainFinish(t)

Spec == Init /\ [][Next]_vars

\* the characters re.escape puts a backslash before
EscapedChars == {40, 41, 91, 93, 123, 125, 63, 42, 43, 45, 124, 94, 36, 92, 46, 38,
                 126, 35, 32, 9, 10, 13, 11, 12}

\* len(re.escape(s))
EscapedLen(s) == Len(s) + Cardinality({i \in 1..Len(s) : s[i] \in EscapedChars})

RECURSIVE JoinedLen(_, _)
\* len('|'.join(map(re.escape, specials))), from index j
JoinedLen(specials, j) ==
  IF j > Len(specials) THEN 0
  ELSE EscapedLen(specials[j]) + (IF j < Len(specials) THEN 1 ELSE 0) + JoinedLen(specials, j + 1)

\* len(delim) for delim = f'(?:{delim})+'
DelimLen(specials) == 3 + JoinedLen(specials, 1) + 2

\* the orders in which the workers' batches can reach the for loop of count_tokens_multi
DeliveryOrders(text_iter, n_chunks) == Orders(Batches(text_iter, n_chunks))

\* TrainFromFile looking at the special tokens before it looks at vocab_size
TrainFromFileSpecialsFirst ==
  /\ pc[TRUE] = "idle"
  /\ NoOtherCall(TRUE)
  /\ special_tokens = <<>>
  /\ called' = [called EXCEPT ![TRUE] = "train_from_file"]
  /\ vocab' = [vocab EXCEPT ![TRUE] = BaseVocab]
  /\ merges' = [merges EXCEPT ![TRUE] = <<>>]
  /\ pc' = [pc EXCEPT ![TRUE] = "raised"]
  /\ exc' = [exc EXCEPT ![TRUE] = "ValueError: at least one special token required"]
  /\ UNCHANGED <<text, vocab_size, special_tokens, ix, pretoken_count, pair_count,
                 pair_to_pretoken_set, pair_heap, pool_created, file_opened, chunks, multi, unit, fs, io>>

\* train_from_file, from its entry to the start of the merge loop (tokenizer.py
\* 289-307); the file at file_path holds text, the tokenizer is the one with the
\* fast engine, and the merge loop that follows (309-329) is the loop of train
TrainFromFile ==
  /\ pc[TRUE] = "idle"
  /\ NoOtherCall(TRUE)
  /\ called' = [called EXCEPT ![TRUE] = "train_from_file"]
  /\ vocab' = [vocab EXCEPT ![TRUE] = BaseVocab]
  /\ merges' = [merges EXCEPT ![TRUE] = <<>>]
  /\ IF vocab_size < min_size
     THEN /\ pc' = [pc EXCEPT ![TRUE] = "raised"]
          /\ exc' = [exc EXCEPT ![TRUE] = "ValueError"]
          /\ UNCHANGED <<ix, pretoken_count, pair_count, pair_to_pretoken_set, pair_heap,
                         pool_created, file_opened>>
     ELSE IF special_tokens = <<>>
     THEN /\ pc' = [pc EXCEPT ![TRUE] = "raised"]
          /\ exc' = [exc EXCEPT ![TRUE] = "ValueError: at least one special token required"]
          /\ UNCHANGED <<ix, pretoken_count, pair_count, pair_to_pretoken_set, pair_heap,
                         pool_created, file_opened>>
     ELSE LET chunk_gen == generate_text_chunks(text, special_tokens, FileChunkSize,
                                                DelimLen(special_tokens) + FileOverlapExtra)
          IN \E order \in DeliveryOrders(chunk_gen, FileNChunks) :
               /\ pool_created' = TRUE
               /\ file_opened' = TRUE
               /\ SetMerger(TRUE, FastMerger(count_tokens_multi(chunk_gen, FileNChunks, order)))
               /\ ix' = [ix EXCEPT ![TRUE] = NumBytes]
               /\ pc' = [pc EXCEPT ![TRUE] = "loop"]
               /\ exc' = exc
  /\ UNCHANGED <<text, vocab_size, special_tokens, chunks, multi, unit, fs, io>>

NextFile == Next \/ TrainFromFile

\* the training calls when the fast tokenizer may also be trained from a file
SpecFile == Init /\ [][NextFile]_vars

\* ------------------------------------------- count_tokens_multi on its own
\* the training calls are not followed: one tokenizer state stands for them
TrainNotFollowed ==
  /\ InitTrain
  /\ text = <<>>
  /\ special_tokens = <<>>
  /\ vocab_size = NumBytes
  /\ vocab[TRUE] = BaseVocab

RECURSIVE Cuts(_)
\* every way of cutting the string s into consecutive non-empty pieces
Cuts(s) ==
  IF s = <<>> THEN {<<>>}
  ELSE UNION {{<<SubSeq(s, 1, k)>> \o rest : rest \in Cuts(SubSeq(s, k + 1, Len(s)))}
              : k \in 1..Len(s)}

\* the worker counts and the batching factors count_tokens_multi is called with
ProcChoices == {1, 2}
BatchChoices == {1, 2}

\* count_tokens_multi(text_iter, n_proc, n_chunks) at the start of its for loop:
\* no batch has come back, total is empty
MultiCall(text_iter, n_proc, n_chunks) ==
  [pc |-> "running", text_iter |-> text_iter, n_proc |-> n_proc, n_chunks |-> n_chunks,
   pending |-> Batches(text_iter, n_chunks), arrived |-> <<>>, total |-> EmptyDict,
   result |-> EmptyDict]

InitMulti ==
  /\ TrainNotFollowed
  /\ chunks = NoCall
  /\ unit = NoCall
  /\ fs = NoCall
  /\ io = NoCall
  /\ \E s \in Texts : \E text_iter \in Cuts(s) :
       \E n_proc \in ProcChoices : \E n_chunks \in BatchChoices :
         multi = MultiCall(text_iter, n_proc, n_chunks)

\* the pool hands out the batches in order to n_proc workers, so a batch can be the
\* next to come back only if fewer than n_proc batches before it are still out
CanArrive(m, b) ==
  b \in m.pending /\ Cardinality({c \in m.pending : c < b}) < m.n_proc

\* one batch comes back from a worker: total.update(chunk) for each of its tables
MultiDeliver ==
  /\ multi.pc = "running"
  /\ \E b \in multi.pending :
       /\ CanArrive(multi, b)
       /\ multi' = [multi EXCEPT
                      !.pending = @ \ {b},
                      !.arrived = Append(@, b),
                      !.total = UpdateEach(@, multi.text_iter,
                                           BatchItems(multi.text_iter, multi.n_chunks, b))]
  /\ UNCHANGED <<train_vars, chunks, unit, fs, io>>

\* every batch is back: the pool is closed and the byte-keyed counter returned
MultiReturn ==
  /\ multi.pc = "running"
  /\ multi.pending = {}
  /\ multi' = [multi EXCEPT !.pc = "returned", !.result = EncodeKeys(multi.total)]
  /\ UNCHANGED <<train_vars, chunks, unit, fs, io>>

NextMulti == MultiDeliver \/ MultiReturn

SpecMulti == InitMulti /\ [][NextMulti]_vars

\* ----------------------------------------- generate_text_chunks on its own
\* largest chunk_size and overlap_size the generator is called with
MaxChunk == 3
MaxOverlap == 2

\* the delimiters: (?:\|)+, (?:\||a\|)+ and (?:\|a|\|)+
DelimChoices == {<< <<124>> >>, << <<124>>, <<97, 124>> >>, << <<124, 97>>, <<124>> >>}

InitChunks ==
  /\ TrainNotFollowed
  /\ multi = NoCall
  /\ unit = NoCall
  /\ fs = NoCall
  /\ io = NoCall
  /\ \E file \in Texts : \E specials \in DelimChoices :
       \E chunk_size \in 1..MaxChunk : \E overlap_size \in 0..MaxOverlap :
         chunks = [Generator(file, specials, chunk_size, overlap_size) EXCEPT !.pc = "running"]

\* one iteration of the while loop that read something from the file
ChunkRead ==
  /\ chunks.pc = "running"
  /\ ~chunks.file_is_finished
  /\ chunks.pos < Len(chunks.file)
  /\ chunks' = ChunkIter(chunks)
  /\ UNCHANGED <<train_vars, multi, unit, fs, io>>

\* the last iteration of the while loop: the read returned nothing
ChunkLast ==
  /\ chunks.pc = "running"
  /\ ~chunks.file_is_finished
  /\ chunks.pos >= Len(chunks.file)
  /\ chunks' = [ChunkIter(chunks) EXCEPT !.pc = "exhausted"]
  /\ UNCHANGED <<train_vars, multi, unit, fs, io>>

NextChunks == ChunkRead \/ ChunkLast

SpecChunks == InitChunks /\ [][NextChunks]_vars

\* ------------------------------------- the FastMerger methods on their own
\* longest pretoken the engine is built from, and the number of calls followed
MaxSeq == 4
MaxCalls == 2

\* the ids the pretokens are made of, and the id a merge produces
SeqIds == {1, 2}
NewId == 9
\* the frequencies of the pretokens
FreqChoices == {1, 2}
\* the freq arguments of _update_pair
DeltaChoices == {0 - 2, 0 - 1, 0, 1}
\* the pair arguments of _update_pair: present pairs, absent pairs, incoming pairs
PairChoices == (SeqIds \X SeqIds) \cup {<<NewId, 1>>}

IdSeqs == UNION {[1..n -> SeqIds] : n \in 1..MaxSeq}

\* the pretoken counters the engine is built from: at most two pretokens
CounterChoices ==
  {EmptyDict}
    \cup {(a :> f) : a \in IdSeqs, f \in FreqChoices}
    \cup UNION {{(a :> f) @@ (b :> g) : b \in IdSeqs \ {a}, g \in FreqChoices}
                 : a \in IdSeqs, f \in FreqChoices}

\* a FastMerger right after its construction: no method has been called yet
UnitCall(pretokens) ==
  [pc |-> "built", op |-> "none", calls |-> 0,
   fm |-> FastMerger(pretokens), before |-> FastMerger(pretokens),
   pair |-> None, freq |-> 0, old_seq |-> None, new_ix |-> 0, ret |-> None]

InitMerger ==
  /\ TrainNotFollowed
  /\ chunks = NoCall
  /\ multi = NoCall
  /\ fs = NoCall
  /\ io = NoCall
  /\ \E pretokens \in CounterChoices : unit = UnitCall(pretokens)

\* another method of the engine can be called
UnitReady == unit.pc \in {"built", "returned"} /\ unit.calls < MaxCalls

\* unit as it is after the call op(...) that turned the engine into fm
UnitAfter(op, fm, pair, freq, old_seq, new_ix, ret) ==
  [pc |-> IF fm.exc = "none" THEN "returned" ELSE "raised",
   op |-> op, calls |-> unit.calls + 1, fm |-> fm, before |-> unit.fm,
   pair |-> pair, freq |-> freq, old_seq |-> old_seq, new_ix |-> new_ix, ret |-> ret]

\* fm._update_pair(pair, freq)
UnitUpdatePair ==
  /\ UnitReady
  /\ \E pair \in PairChoices : \E freq \in DeltaChoices :
       unit' = UnitAfter("_update_pair", _update_pair(unit.fm, pair, freq),
                         pair, freq, None, 0, None)
  /\ UNCHANGED <<train_vars, chunks, multi, fs, io>>

\* fm._merge_sequence(old_seq, fm.pretoken_count[old_seq], top_pair, new_ix) for a
\* pretoken old_seq that contains top_pair
UnitMergeSequence ==
  /\ UnitReady
  /\ \E old_seq \in DOMAIN unit.fm.pretoken_count :
       \E i \in 1..Len(Pairs(old_seq)) :
         LET top_pair == Pairs(old_seq)[i]
             seq_freq == unit.fm.pretoken_count[old_seq]
         IN unit' = UnitAfter("_merge_sequence",
                              _merge_sequence(unit.fm, old_seq, seq_freq, top_pair, NewId),
                              top_pair, seq_freq, old_seq, NewId, None)
  /\ UNCHANGED <<train_vars, chunks, multi, fs, io>>

\* _merge(seq, pair, new_ix) on a pretoken of the engine, which it leaves alone
UnitMerge ==
  /\ UnitReady
  /\ \E seq \in DOMAIN unit.fm.pretoken_count : \E pair \in SeqIds \X SeqIds :
       unit' = UnitAfter("_merge", unit.fm, pair, 0, seq, NewId, _merge(seq, pair, NewId))
  /\ UNCHANGED <<train_vars, chunks, multi, fs, io>>

NextMerger == UnitUpdatePair \/ UnitMergeSequence \/ UnitMerge

SpecMerger == InitMerger /\ [][NextMerger]_vars

\* ------------------------------------------------- save_state, load_state
RECURSIVE Str(_)
\* str(k) for an int k >= 0: its decimal digits
Str(k) == IF k < 10 THEN <<48 + k>> ELSE Str(k \div 10) \o <<48 + (k % 10)>>

RECURSIVE DigitsValue(_, _)
DigitsValue(s, acc) ==
  IF s = <<>> THEN acc ELSE DigitsValue(Tail(s), acc * 10 + (Head(s) - 48))

\* int(s): an optional sign and decimal digits, ValueError (ok = FALSE) otherwise
ParseInt(s) ==
  LET signed == s # <<>> /\ Head(s) \in {43, 45}
      body == IF signed THEN Tail(s) ELSE s
  IN IF body = <<>> \/ \E i \in 1..Len(body) : body[i] \notin 48..57
     THEN [ok |-> FALSE, value |-> 0]
     ELSE [ok |-> TRUE,
           value |-> IF signed /\ Head(s) = 45 THEN 0 - DigitsValue(body, 0)
                     ELSE DigitsValue(body, 0)]

HexDigit(n) == IF n < 10 THEN 48 + n ELSE 87 + n

RECURSIVE HexNoPad(_)
\* Hex writing a byte below 16 as a single digit
HexNoPad(b) ==
  IF b = <<>> THEN <<>>
  ELSE (IF Head(b) < 16 THEN <<HexDigit(Head(b))>>
        ELSE <<HexDigit(Head(b) \div 16), HexDigit(Head(b) % 16)>>) \o HexNoPad(Tail(b))

RECURSIVE Hex(_)
\* bytes.hex(): two lower-case hex digits per byte
Hex(b) ==
  IF b = <<>> THEN <<>>
  ELSE <<HexDigit(Head(b) \div 16), HexDigit(Head(b) % 16)>> \o Hex(Tail(b))

\* the value of one hex digit, -1 for any other character
HexValue(c) ==
  IF c \in 48..57 THEN c - 48
  ELSE IF c \in 97..102 THEN c - 87
  ELSE IF c \in 65..70 THEN c - 55
  ELSE 0 - 1

\* bytes.fromhex(h): ValueError (ok = FALSE) on an odd length or a non-hex character
FromHex(h) ==
  IF Len(h) % 2 # 0 \/ \E i \in 1..Len(h) : HexValue(h[i]) < 0
  THEN [ok |-> FALSE, value |-> <<>>]
  ELSE [ok |-> TRUE,
        value |-> [i \in 1..(Len(h) \div 2) |-> 16 * HexValue(h[2 * i - 1]) + HexValue(h[2 * i])]]

\* a Python list of ints as JSON holds it, as opposed to a tuple
JsonArray(seq) == [array |-> seq]

\* the dict save_state hands to json.dump
StateDocument(m, v) ==
  [version |-> 1,
   merges |-> [i \in 1..Len(m) |-> JsonArray(m[i])],
   vocab |-> [key \in {Str(k) : k \in DOMAIN v} |->
                Hex(v[CHOOSE k \in DOMAIN v : Str(k) = key])]]

\* one chunk of the JSON text of a state file
Chunk(kind, version, array, key, hex) ==
  [kind |-> kind, version |-> version, array |-> array, key |-> key, hex |-> hex]

RECURSIVE VocabChunks(_, _)
\* the chunks of the "vocab" object for the keys in todo
VocabChunks(d, todo) ==
  IF todo = {} THEN <<>>
  ELSE LET key == CHOOSE key \in todo : TRUE
       IN <<Chunk("vocab", 0, <<>>, key, d[key])>> \o VocabChunks(d, todo \ {key})

\* the text json.dump writes for the document data, chunk after chunk; the last
\* chunk closes the top-level object
Dump(data) ==
  <<Chunk("version", data.version, <<>>, <<>>, <<>>)>>
    \o [i \in 1..Len(data.merges) |-> Chunk("merge", 0, data.merges[i].array, <<>>, <<>>)]
    \o VocabChunks(data.vocab, DOMAIN data.vocab)
    \o <<Chunk("end", 0, <<>>, <<>>, <<>>)>>

\* json.load of a file's content: JSONDecodeError (ok = FALSE) unless the text is
\* complete, else the document
Load(content) ==
  IF content = <<>> \/ content[Len(content)].kind # "end"
  THEN [ok |-> FALSE, data |-> StateDocument(<<>>, EmptyDict)]
  ELSE LET of(kind) == SelectSeq(content, LAMBDA c : c.kind = kind)
           keys == {c.key : c \in {of("vocab")[i] : i \in 1..Len(of("vocab"))}}
       IN [ok |-> TRUE,
           data |-> [version |-> IF of("version") = <<>> THEN 0 ELSE of("version")[1].version,
                     merges |-> [i \in 1..Len(of("merge")) |-> JsonArray(of("merge")[i].array)],
                     vocab |-> [key \in keys |->
                                  (CHOOSE c \in {of("vocab")[i] : i \in 1..Len(of("vocab"))} :
                                     c.key = key).hex]]]

\* Path(prefix).name: the last component of the prefix
PathName(prefix) == prefix[Len(prefix)]

\* the name of the state file, and of a temporary file, of a sanitized prefix
TargetName(safe_prefix) == <<safe_prefix, "_tokenizer.json">>

\* a temporary file that has the name of the state file itself
TempNameIsTarget(safe_prefix, random) == <<safe_prefix, "_tokenizer.json">>

\* the name NamedTemporaryFile(prefix=safe_prefix, suffix='.json') gives its file
TempName(safe_prefix, random) == <<safe_prefix, random>>

\* the random parts tempfile can give a temporary file's name
TempRandoms == {"tmp1.json", "tmp2.json"}

\* the prefixes the calls are given: "tok", "../etc/tok" and "other"
PrefixChoices == {<<"tok">>, <<"..", "etc", "tok">>, <<"other">>}

\* what a tokenizer can hold: the states of tests/test_load_state.py, and nothing
StateChoices ==
  {[merges |-> <<<<1, 2>>, <<3, 4>>>>,
    vocab |-> (0 :> <<0>>) @@ (255 :> <<255>>) @@ (256 :> <<97, 98>>)],
   [merges |-> <<<<9, 9>>>>, vocab |-> (999 :> <<88>>)],
   [merges |-> <<>>, vocab |-> EmptyDict]}

\* the documents a state file on disk can hold before any call: one written by an
\* earlier save_state, and the three malformed ones of tests/test_load_state.py
\* (version 2; the key "x"; the hex string "zz")
FileChoices ==
  {Dump(StateDocument(<<<<5, 6>>>>, (256 :> <<5, 6>>))),
   Dump([version |-> 2, merges |-> <<>>, vocab |-> EmptyDict]),
   Dump([version |-> 1, merges |-> <<>>, vocab |-> (<<120>> :> <<48, 48>>)]),
   Dump([version |-> 1, merges |-> <<>>, vocab |-> (<<48>> :> <<122, 122>>)])}

\* folder is missing, is a regular file, or is a directory holding files
Folder(kind, files) == [pc |-> "followed", kind |-> kind, files |-> files]

\* the content of the file called name, as a list of at most one element
FileAt(folder, name) ==
  IF folder.kind = "dir" /\ name \in DOMAIN folder.files THEN <<folder.files[name]>> ELSE <<>>

\* no save_state or load_state call has been made yet
NoIo ==
  [pc |-> "idle", op |-> "none", calls |-> 0, t |-> TRUE, prefix |-> <<"tok">>,
   temp |-> <<>>, todo |-> <<>>, previous |-> <<>>, exc |-> "none",
   before |-> [merges |-> <<>>, vocab |-> EmptyDict], saved |-> <<>>]

InitState ==
  /\ text = <<>>
  /\ special_tokens = <<>>
  /\ vocab_size = NumBytes
  /\ \E held \in [Tokenizers -> StateChoices] :
       /\ vocab = [t \in Tokenizers |-> held[t].vocab]
       /\ merges = [t \in Tokenizers |-> held[t].merges]
  /\ ix = [t \in Tokenizers |-> NumBytes]
  /\ pc = [t \in Tokenizers |-> "idle"]
  /\ exc = [t \in Tokenizers |-> "none"]
  /\ pretoken_count = [t \in Tokenizers |-> EmptyDict]
  /\ pair_count = EmptyDict
  /\ pair_to_pretoken_set = EmptyDict
  /\ pair_heap = EmptyBag
  /\ called = [t \in Tokenizers |-> "none"]
  /\ pool_created = FALSE
  /\ file_opened = FALSE
  /\ chunks = NoCall
  /\ multi = NoCall
  /\ unit = NoCall
  /\ fs \in {Folder("missing", EmptyDict), Folder("file", EmptyDict), Folder("dir", EmptyDict)}
            \cup {Folder("dir", (TargetName("tok") :> content)) : content \in FileChoices}
  /\ io = NoIo

\* a save_state or load_state call can start: none is running (the last one returned,
\* raised, or its process was interrupted)
IoReady == io.pc \in {"idle", "returned", "raised", "interrupted"} /\ io.calls < MaxCalls

\* what the tokenizer state variables leave alone in the persistence calls
state_frame == <<text, vocab_size, special_tokens, ix, pc, exc, pretoken_count, pair_count,
                 pair_to_pretoken_set, pair_heap, called, pool_created, file_opened>>

\* save_state up to the creation of the temporary file (tokenizer.py 337-357)
SaveOpen(t, prefix) ==
  /\ IoReady
  /\ LET started == [io EXCEPT !.op = "save_state", !.calls = @ + 1, !.t = t, !.prefix = prefix,
                               !.exc = "none", !.temp = <<>>, !.todo = <<>>,
                               !.previous = FileAt(fs, TargetName(PathName(prefix))),
                               !.before = [merges |-> merges[t], vocab |-> vocab[t]]]
     IN IF fs.kind = "file"
        THEN /\ io' = [started EXCEPT !.pc = "raised", !.exc = "NotADirectoryError"]
             /\ fs' = fs
        ELSE \E random \in TempRandoms :
               LET temp == TempName(PathName(prefix), random)
               IN /\ temp \notin DOMAIN fs.files
                  /\ fs' = Folder("dir", DictSet(fs.files, temp, <<>>))
                  /\ io' = [started EXCEPT !.pc = "writing", !.temp = temp,
                                           !.todo = Dump(StateDocument(merges[t], vocab[t]))]
  /\ UNCHANGED <<state_frame, vocab, merges, chunks, multi, unit>>

\* json.dump gets one more chunk of the text into the temporary file
SaveWrite ==
  /\ io.pc = "writing"
  /\ io.todo # <<>>
  /\ fs' = [fs EXCEPT !.files[io.temp] = Append(@, Head(io.todo))]
  /\ io' = [io EXCEPT !.todo = Tail(@)]
  /\ UNCHANGED <<state_frame, vocab, merges, chunks, multi, unit>>

\* os.replace(tempname, target): the temporary file becomes the target in one step
Replace(folder, temp, target) ==
  [folder EXCEPT !.files = DictSet(DictDel(@, temp), target, folder.files[temp])]

\* the with block is left and the file renamed into place (tokenizer.py 370-373)
SaveReplace ==
  /\ io.pc = "writing"
  /\ io.todo = <<>>
  /\ fs' = Replace(fs, io.temp, TargetName(PathName(io.prefix)))
  /\ io' = [io EXCEPT !.pc = "returned",
                      !.saved = <<[name |-> PathName(io.prefix),
                                   merges |-> merges[io.t], vocab |-> vocab[io.t]]>>]
  /\ UNCHANGED <<state_frame, vocab, merges, chunks, multi, unit>>

\* the process is interrupted while save_state is running: nothing more is written
\* and nothing is cleaned up
SaveInterrupt ==
  /\ io.pc = "writing"
  /\ io' = [io EXCEPT !.pc = "interrupted"]
  /\ UNCHANGED <<state_frame, vocab, merges, chunks, multi, unit, fs>>

\* load_state (tokenizer.py 390-424), one blocking call; when several entries of
\* "vocab" are malformed the error reported here is the one for a key
LoadState(t, prefix) ==
  /\ IoReady
  /\ LET file == FileAt(fs, TargetName(PathName(prefix)))
         parsed == Load(file[1])
         data == parsed.data
         new_merges == [i \in 1..Len(data.merges) |-> data.merges[i].array]
         bad_keys == {key \in DOMAIN data.vocab : ~ParseInt(key).ok}
         bad_values == {key \in DOMAIN data.vocab : ~FromHex(data.vocab[key]).ok}
         new_vocab == [k \in {ParseInt(key).value : key \in DOMAIN data.vocab} |->
                         FromHex(data.vocab[CHOOSE key \in DOMAIN data.vocab :
                                              ParseInt(key).value = k]).value]
         outcome == IF fs.kind # "dir" THEN "NotADirectoryError"
                    ELSE IF file = <<>> THEN "FileNotFoundError"
                    ELSE IF ~parsed.ok THEN "JSONDecodeError"
                    ELSE IF data.version # 1 THEN "ValueError: Unsupported tokenizer state version"
                    ELSE IF bad_keys # {} THEN "ValueError: Invalid token ID in state file"
                    ELSE IF bad_values # {} THEN "ValueError: Invalid hex for token"
                    ELSE "none"
         merges_restored == outcome \in {"none", "ValueError: Invalid token ID in state file",
                                         "ValueError: Invalid hex for token"}
     IN /\ io' = [io EXCEPT !.op = "load_state", !.calls = @ + 1, !.t = t, !.prefix = prefix,
                            !.pc = IF outcome = "none" THEN "returned" ELSE "raised",
                            !.exc = outcome, !.temp = <<>>, !.todo = <<>>, !.previous = file,
                            !.before = [merges |-> merges[t], vocab |-> vocab[t]]]
        /\ merges' = IF merges_restored THEN [merges EXCEPT ![t] = new_merges] ELSE merges
        /\ vocab' = IF outcome = "none" THEN [vocab EXCEPT ![t] = new_vocab] ELSE vocab
  /\ UNCHANGED <<state_frame, fs, chunks, multi, unit>>

NextState ==
  \/ \E t \in Tokenizers : \E prefix \in PrefixChoices : SaveOpen(t, prefix) \/ LoadState(t, prefix)
  \/ SaveWrite
  \/ SaveReplace
  \/ SaveInterrupt

SpecState == InitState /\ [][NextState]_vars

\* --------------------------------- the worker pool of train_from_file
\* what the chunk reader or a worker can raise while the pool is at work
PoolErrors == {"OSError", "UnicodeDecodeError"}

\* count_tokens_multi inside its with block: MultiCall and the pool's live workers
PoolCall(text_iter, n_proc, n_chunks) ==
  [pc |-> "running", text_iter |-> text_iter, n_proc |-> n_proc, n_chunks |-> n_chunks,
   pending |-> Batches(text_iter, n_chunks), arrived |-> <<>>, total |-> EmptyDict,
   result |-> EmptyDict, workers |-> n_proc, error |-> "none"]

\* train_from_file from its entry to the creation of the pool (tokenizer.py 289-304,
\* pretokenizer.py 52-53); n_proc is multiprocessing.cpu_count()
FileStart ==
  /\ pc[TRUE] = "idle"
  /\ called' = [called EXCEPT ![TRUE] = "train_from_file"]
  /\ vocab' = [vocab EXCEPT ![TRUE] = BaseVocab]
  /\ merges' = [merges EXCEPT ![TRUE] = <<>>]
  /\ IF vocab_size < min_size
     THEN /\ pc' = [pc EXCEPT ![TRUE] = "raised"]
          /\ exc' = [exc EXCEPT ![TRUE] = "ValueError"]
          /\ UNCHANGED <<pool_created, file_opened, multi>>
     ELSE IF special_tokens = <<>>
     THEN /\ pc' = [pc EXCEPT ![TRUE] = "raised"]
          /\ exc' = [exc EXCEPT ![TRUE] = "ValueError: at least one special token required"]
          /\ UNCHANGED <<pool_created, file_opened, multi>>
     ELSE LET chunk_gen == generate_text_chunks(text, special_tokens, FileChunkSize,
                                                DelimLen(special_tokens) + FileOverlapExtra)
          IN /\ \E n_proc \in ProcChoices : multi' = PoolCall(chunk_gen, n_proc, FileNChunks)
             /\ pool_created' = TRUE
             /\ file_opened' = TRUE
             /\ pc' = [pc EXCEPT ![TRUE] = "pretokenize"]
             /\ exc' = exc
  /\ UNCHANGED <<text, vocab_size, special_tokens, ix, pretoken_count, pair_count,
                 pair_to_pretoken_set, pair_heap, chunks, unit, fs, io>>

\* one batch comes back from a worker of the pool: total.update(chunk)
PoolDeliver ==
  /\ pc[TRUE] = "pretokenize"
  /\ multi.pc = "running"
  /\ \E b \in multi.pending :
       /\ CanArrive(multi, b)
       /\ multi' = [multi EXCEPT
                      !.pending = @ \ {b},
                      !.arrived = Append(@, b),
                      !.total = UpdateEach(@, multi.text_iter,
                                           BatchItems(multi.text_iter, multi.n_chunks, b))]
  /\ UNCHANGED <<train_vars, chunks, unit, fs, io>>

\* the chunk reader or a worker raises: imap_unordered re-raises it in the for loop
PoolRaise ==
  /\ pc[TRUE] = "pretokenize"
  /\ multi.pc = "running"
  /\ \E e \in PoolErrors : multi' = [multi EXCEPT !.pc = "failed", !.error = e]
  /\ UNCHANGED <<train_vars, chunks, unit, fs, io>>

\* a pool closed only when the for loop ran to its end, as pool.close() after it would
PoolExitOnSuccessOnly ==
  /\ pc[TRUE] = "pretokenize"
  /\ \/ multi.pc = "running" /\ multi.pending = {}
     \/ multi.pc = "failed"
  /\ multi' = [multi EXCEPT !.pc = "closed",
                            !.workers = IF multi.pc = "failed" THEN @ ELSE 0]
  /\ UNCHANGED <<train_vars, chunks, unit, fs, io>>

\* the with block is left, by the end of the for loop or by an exception:
\* Pool.__exit__ terminates and joins the workers (pretokenizer.py 53)
PoolExit ==
  /\ pc[TRUE] = "pretokenize"
  /\ \/ multi.pc = "running" /\ multi.pending = {}
     \/ multi.pc = "failed"
  /\ multi' = [multi EXCEPT !.pc = "closed", !.workers = 0]
  /\ UNCHANGED <<train_vars, chunks, unit, fs, io>>

\* count_tokens_multi returns or raises; train_from_file builds the engine from the
\* counter it returned (pretokenizer.py 56, tokenizer.py 305-307)
FileBuild ==
  /\ pc[TRUE] = "pretokenize"
  /\ multi.pc = "closed"
  /\ IF multi.error # "none"
     THEN /\ multi' = [multi EXCEPT !.pc = "raised"]
          /\ pc' = [pc EXCEPT ![TRUE] = "raised"]
          /\ exc' = [exc EXCEPT ![TRUE] = multi.error]
          /\ UNCHANGED <<ix, pretoken_count, pair_count, pair_to_pretoken_set, pair_heap>>
     ELSE /\ multi' = [multi EXCEPT !.pc = "returned", !.result = EncodeKeys(multi.total)]
          /\ SetMerger(TRUE, FastMerger(EncodeKeys(multi.total)))
          /\ ix' = [ix EXCEPT ![TRUE] = NumBytes]
          /\ pc' = [pc EXCEPT ![TRUE] = "loop"]
          /\ exc' = exc
  /\ UNCHANGED <<text, vocab_size, special_tokens, vocab, merges, called, pool_created,
                 file_opened, chunks, unit, fs, io>>

NextPool ==
  \/ FileStart
  \/ PoolDeliver
  \/ PoolRaise
  \/ PoolExit
  \/ FileBuild
  \/ TrainIter(TRUE)
  \/ TrainFinish(TRUE)

\* train_from_file with its pool followed step by step
SpecPool == Init /\ [][NextPool]_vars

\* ------------------------------------------------- encode_pretoken
\* longest pretoken encode_pretoken is called with
MaxPretoken == 4

\* the token ids of the pretokens, of the keys and of the values of pair_to_idx
EncodeIds == {1, 2, 3}

\* the pair_to_idx maps: at most two keys, every id a possible merge id
PairToIdxChoices ==
  UNION {[S -> EncodeIds] : S \in {T \in SUBSET (EncodeIds \X EncodeIds) : Cardinality(T) <= 2}}

RECURSIVE LowestFrom(_, _, _, _)
\* the for loop of get_lowest_rank_pair over zip(pretoken, pretoken[1:]), from index i
LowestFrom(pretoken, pair_to_idx, i, result) ==
  IF i > Len(Pairs(pretoken)) THEN result
  ELSE LET pair == Pairs(pretoken)[i]
       IN IF pair \in DOMAIN pair_to_idx /\ (result = None \/ result[2] > pair_to_idx[pair])
          THEN LowestFrom(pretoken, pair_to_idx, i + 1, <<pair, pair_to_idx[pair]>>)
          ELSE LowestFrom(pretoken, pair_to_idx, i + 1, result)

\* get_lowest_rank_pair keeping the last pair found in the map, whatever its index
LowestRankPairLast(pretoken, pair_to_idx) ==
  LET found == {i \in 1..Len(Pairs(pretoken)) : Pairs(pretoken)[i] \in DOMAIN pair_to_idx}
      last == CHOOSE i \in found : \A j \in found : j <= i
  IN IF found = {} THEN None ELSE <<Pairs(pretoken)[last], pair_to_idx[Pairs(pretoken)[last]]>>

get_lowest_rank_pair(pretoken, pair_to_idx) == LowestFrom(pretoken, pair_to_idx, 1, None)

\* encode_pretoken(pretoken, pair_to_idx) at the test of its while loop; arg, prev
\* and merged keep the argument, the sequence before the last merge and that merge
EncodeCall(pretoken, pair_to_idx) ==
  [pc |-> "loop", arg |-> pretoken, pair_to_idx |-> pair_to_idx, pretoken |-> pretoken,
   pair_and_id |-> get_lowest_rank_pair(pretoken, pair_to_idx),
   iters |-> 0, prev |-> pretoken, merged |-> None]

InitEncode ==
  /\ TrainNotFollowed
  /\ chunks = NoCall
  /\ multi = NoCall
  /\ fs = NoCall
  /\ io = NoCall
  /\ \E n \in 0..MaxPretoken : \E pretoken \in [1..n -> EncodeIds] :
       \E pair_to_idx \in PairToIdxChoices : unit = EncodeCall(pretoken, pair_to_idx)

\* one iteration of the while loop of encode_pretoken
EncodeIter ==
  /\ unit.pc = "loop"
  /\ unit.pair_and_id # None
  /\ LET pair == unit.pair_and_id[1]
         idx == unit.pair_and_id[2]
         merged == _merge(unit.pretoken, pair, idx)
     IN unit' = [unit EXCEPT !.pretoken = merged,
                             !.pair_and_id = get_lowest_rank_pair(merged, unit.pair_to_idx),
                             !.iters = @ + 1,
                             !.prev = unit.pretoken,
                             !.merged = unit.pair_and_id]
  /\ UNCHANGED <<train_vars, chunks, multi, fs, io>>

\* the loop is over: return pretoken
EncodeReturn ==
  /\ unit.pc = "loop"
  /\ unit.pair_and_id = None
  /\ unit' = [unit EXCEPT !.pc = "returned"]
  /\ UNCHANGED <<train_vars, chunks, multi, fs, io>>

NextEncode == EncodeIter \/ EncodeReturn

SpecEncode == InitEncode /\ [][NextEncode]_vars

\* encode_pretoken runs in the caller's thread, which takes the next step of the
\* loop whenever there is one
SpecEncodeFair == SpecEncode /\ WF_vars(NextEncode)

\* ------------------------------------------------------------------ claims
\* the pretokens train hands to the merger
OriginalPretokens == count_tokens_single(Stripped(text, special_tokens))

\* the fast tokenizer's engine exists and its last step, if any, completed
EngineOk(t) == pc[t] \in {"loop", "done"} \/ (pc[t] = "raised" /\ exc[t] = "TypeError")

\* every adjacent pair of every pretoken of a pretoken counter
AllPairs(ptc) == UNION {{Pairs(pt)[i] : i \in 1..Len(Pairs(pt))} : pt \in DOMAIN ptc}

RECURSIVE WeightedOccurrences(_, _, _)
\* sum over the pretokens in todo of occurrences(p, PT) * ptc[PT]
WeightedOccurrences(ptc, todo, p) ==
  IF todo = {} THEN 0
  ELSE LET pt == CHOOSE pt \in todo : TRUE
       IN Occurrences(Pairs(pt), p) * ptc[pt] + WeightedOccurrences(ptc, todo \ {pt}, p)

\* the ids a pretoken is made of
Ids(pt) == {pt[i] : i \in 1..Len(pt)}

RECURSIVE Expand(_, _)
\* the concatenation of v[id] over the ids of pt
Expand(pt, v) == IF pt = <<>> THEN <<>> ELSE v[Head(pt)] \o Expand(Tail(pt), v)

\* C1: whenever the fast engine has completed its initialisation or a step and
\* PairCount is non-empty, _most_common_pair returns a pair whose count is the
\* maximum of PairCount and which is the lexicographically greatest pair of that count
C1_TopPairIsGreatestMax ==
  (EngineOk(TRUE) /\ DOMAIN pair_count # {}) =>
    LET top == _most_common_pair(Merger(TRUE))
    IN /\ top.fm.exc = "none"
       /\ top.pair \in DOMAIN pair_count
       /\ \A q \in DOMAIN pair_count :
            \/ pair_count[q] < pair_count[top.pair]
            \/ pair_count[q] = pair_count[top.pair] /\ (q = top.pair \/ TupleLess(q, top.pair))

\* C2: after initialisation and after every completed step, PairCount[p] is the sum
\* over the current pretokens of occurrences(p, PT) * PretokenCount[PT], and a pair
\* whose sum is 0 is not a key of PairCount
C2_PairCountIsSum ==
  EngineOk(TRUE) =>
    \A p \in AllPairs(pretoken_count[TRUE]) \cup DOMAIN pair_count :
      LET sum == WeightedOccurrences(pretoken_count[TRUE], DOMAIN pretoken_count[TRUE], p)
      IN /\ CounterGet(pair_count, p) = sum
         /\ sum = 0 => p \notin DOMAIN pair_count

\* C3: after initialisation and after every completed step, PairCount and
\* PairToPretokens have the same keys, every count is positive and every set non-empty
C3_SameKeysPositiveNonEmpty ==
  EngineOk(TRUE) =>
    /\ DOMAIN pair_count = DOMAIN pair_to_pretoken_set
    /\ \A p \in DOMAIN pair_count : pair_count[p] > 0
    /\ \A p \in DOMAIN pair_to_pretoken_set : pair_to_pretoken_set[p] # {}

\* C4: after initialisation and after every completed step, every key p of PairCount
\* has a heap entry (PairCount[p], p)
C4_HeapHasEveryLivePair ==
  EngineOk(TRUE) =>
    \A p \in DOMAIN pair_count : BagIn(HeapEntry(pair_count[p], p), pair_heap)

\* C5: after initialisation and after every completed step, every pretoken in
\* PairToPretokens[p] contains p as two adjacent ids
C5_SetMembersContainPair ==
  EngineOk(TRUE) =>
    \A p \in DOMAIN pair_to_pretoken_set :
      \A pt \in pair_to_pretoken_set[p] : Occurrences(Pairs(pt), p) >= 1

\* a step of the fast engine completed and left a rewritten pretoken in an adjacency set
C5_Witness ==
  /\ pc[TRUE] \in {"loop", "done"}
  /\ \E p \in DOMAIN pair_to_pretoken_set :
       \E pt \in pair_to_pretoken_set[p] : NumBytes \in Ids(pt)

\* C6: once a merger is initialised, and after every step, every key of PretokenCount
\* has a positive frequency and at least one id
C6_PretokensPositiveNonEmpty ==
  \A t \in Tokenizers :
    \A pt \in DOMAIN pretoken_count[t] : pretoken_count[t][pt] > 0 /\ Len(pt) >= 1

\* the fast engine completed a step that rewrote a pretoken
C6_Witness ==
  /\ pc[TRUE] \in {"loop", "done"}
  /\ \E pt \in DOMAIN pretoken_count[TRUE] : NumBytes \in Ids(pt)

\* C7: after each merge iteration of train, every id of every pretoken is a key of
\* Vocab, and expanding the pretokens through Vocab gives back exactly the original
\* pretokens with their frequencies
C7_VocabExpandsToOriginal ==
  \A t \in Tokenizers :
    pc[t] \in {"loop", "done"} =>
      /\ \A pt \in DOMAIN pretoken_count[t] :
           /\ Ids(pt) \subseteq DOMAIN vocab[t]
           /\ Expand(pt, vocab[t]) \in DOMAIN OriginalPretokens
           /\ OriginalPretokens[Expand(pt, vocab[t])] = pretoken_count[t][pt]
      /\ Cardinality(DOMAIN pretoken_count[t]) = Cardinality(DOMAIN OriginalPretokens)

\* a tokenizer has merged twice and a pretoken holds the second merge's id
C7_Witness ==
  \E t \in Tokenizers :
    /\ pc[t] = "done"
    /\ Len(merges[t]) = 2
    /\ \E pt \in DOMAIN pretoken_count[t] : (NumBytes + 1) \in Ids(pt)

\* the train call of tokenizer t has returned or raised
CallOver(t) == pc[t] \in {"done", "raised"}

RECURSIVE PairsRunOut(_, _, _)
\* the corpus ptc has no adjacent pair left at one of the next n merges
PairsRunOut(ptc, n, new_ix) ==
  IF n <= 0 THEN FALSE
  ELSE IF DOMAIN _pairs_count(ptc) = {} THEN TRUE
  ELSE LET out == CHOOSE out \in BasicMerger_step(BasicMerger(ptc), new_ix) : TRUE
       IN PairsRunOut(out.fm.pretoken_count, n - 1, new_ix + 1)

\* C8: once both tokenizers have ended their call on the same arguments, the fast
\* and the naive engine have produced the same list of merges and hold the same
\* PretokenCount
C8_FastEqualsBasic ==
  (CallOver(TRUE) /\ CallOver(FALSE)) =>
    /\ merges[TRUE] = merges[FALSE]
    /\ pretoken_count[TRUE] = pretoken_count[FALSE]

\* C9: when the corpus does not run out of pairs, a train call ends normally with
\* exactly vocab_size - 256 - |specials| merges, each a pair, and
\* Vocab[256+i] = Vocab[left] ++ Vocab[right] for the i-th of them
C9_ExactlyRequestedMerges ==
  \A t \in Tokenizers :
    (CallOver(t) /\ vocab_size >= min_size /\ ~PairsRunOut(OriginalPretokens, num_iters, NumBytes)) =>
      /\ pc[t] = "done"
      /\ Len(merges[t]) = num_iters
      /\ \A i \in 1..Len(merges[t]) :
           /\ merges[t][i] # None
           /\ (NumBytes + i - 1) \in DOMAIN vocab[t]
           /\ vocab[t][NumBytes + i - 1] = MergedBytes(vocab[t], merges[t][i])

\* C10: when the corpus runs out of pairs before the requested number of merges, the
\* train call ends normally with fewer merges than requested, every entry of Merges
\* is a pair, and the vocabulary is smaller than requested
C10_EarlyStopIsNormal ==
  \A t \in Tokenizers :
    (CallOver(t) /\ vocab_size >= min_size /\ PairsRunOut(OriginalPretokens, num_iters, NumBytes)) =>
      /\ pc[t] = "done"
      /\ exc[t] = "none"
      /\ Len(merges[t]) < num_iters
      /\ \A i \in 1..Len(merges[t]) : merges[t][i] # None
      /\ Cardinality(DOMAIN vocab[t]) < vocab_size

\* the vocabulary holds exactly the ids 0 .. n-1, the first 256 of them the single bytes
ByteVocabUpTo(v, n) ==
  /\ DOMAIN v = 0..(n - 1)
  /\ \A i \in 0..(NumBytes - 1) : v[i] = <<i>>

\* C11: after a training call that ended normally, the j-th special token (from 0)
\* sits at id 256 + |Merges| + j as its UTF-8 bytes, and the keys of Vocab are
\* exactly 0 .. 256 + |Merges| + |specials| - 1
C11_SpecialsAtTheEnd ==
  \A t \in Tokenizers :
    pc[t] = "done" =>
      /\ DOMAIN vocab[t] = 0..(NumBytes + Len(merges[t]) + Len(special_tokens) - 1)
      /\ \A j \in 1..Len(special_tokens) :
           vocab[t][NumBytes + Len(merges[t]) + j - 1] = Utf8(special_tokens[j])

\* a training call with two special tokens ended normally after at least one merge
C11_Witness ==
  \E t \in Tokenizers :
    pc[t] = "done" /\ Len(special_tokens) = 2 /\ Len(merges[t]) >= 1

\* the call of tokenizer t passed the argument checks of the method it was called with
ArgumentsAccepted(t) ==
  /\ called[t] # "none"
  /\ vocab_size >= NumBytes + Len(special_tokens)
  /\ called[t] = "train_from_file" => special_tokens # <<>>

\* C12: a training call with vocab_size = 256 + |specials| ends normally with no
\* merge: Merges is empty and Vocab is the 256 single bytes followed by the specials
C12_ZeroMerges ==
  \A t \in Tokenizers :
    (CallOver(t) /\ ArgumentsAccepted(t) /\ vocab_size = NumBytes + Len(special_tokens)) =>
      /\ pc[t] = "done"
      /\ merges[t] = <<>>
      /\ ByteVocabUpTo(vocab[t], NumBytes + Len(special_tokens))
      /\ \A j \in 1..Len(special_tokens) : vocab[t][NumBytes + j - 1] = Utf8(special_tokens[j])

\* train was asked for no merge on a text that has pairs to merge, with a special token
C12_Witness ==
  \E t \in Tokenizers :
    /\ pc[t] = "done" /\ called[t] = "train"
    /\ vocab_size = NumBytes + Len(special_tokens)
    /\ special_tokens # <<>>
    /\ DOMAIN _pairs_count(OriginalPretokens) # {}

\* C13: a training call with vocab_size < 256 + |specials| raises ValueError and
\* leaves Vocab = the 256 single bytes and Merges empty, whatever the tokenizer held
C13_SmallVocabResets ==
  \A t \in Tokenizers :
    (called[t] # "none" /\ vocab_size < NumBytes + Len(special_tokens)) =>
      /\ pc[t] = "raised"
      /\ exc[t] = "ValueError"
      /\ ByteVocabUpTo(vocab[t], NumBytes)
      /\ merges[t] = <<>>

\* the fast tokenizer's call raised ValueError, and it held the corrupted state that
\* the tokenizer not yet called still holds
C13_Witness ==
  /\ pc[TRUE] = "raised" /\ exc[TRUE] = "ValueError"
  /\ vocab_size < NumBytes + Len(special_tokens)
  /\ pc[FALSE] = "idle" /\ 999 \in DOMAIN vocab[FALSE] /\ merges[FALSE] # <<>>

\* C14: train_from_file with no special token raises ValueError without creating a
\* pool or opening the file; the error is the one about vocab_size when vocab_size
\* is too small as well, the one about the special tokens otherwise
C14_NoSpecialsValueError ==
  (called[TRUE] = "train_from_file" /\ special_tokens = <<>>) =>
    /\ pc[TRUE] = "raised"
    /\ ~pool_created
    /\ ~file_opened
    /\ exc[TRUE] = IF vocab_size < NumBytes + Len(special_tokens)
                   THEN "ValueError"
                   ELSE "ValueError: at least one special token required"

\* train_from_file was called with no special token and too small a vocab_size
C14_Witness ==
  /\ called[TRUE] = "train_from_file"
  /\ special_tokens = <<>>
  /\ vocab_size < NumBytes + Len(special_tokens)
  /\ pc[TRUE] = "raised"

\* merger.step(i) of the engine of tokenizer t, on the merger fm
StepOf(t, fm, i) == IF t THEN step(fm, i) ELSE BasicMerger_step(fm, i)

RECURSIVE LoopRuns(_, _, _, _, _)
\* how the merge loop and the lines after it can end when they start from merger fm,
\* vocab v, merges m and ix = i: every [merges, vocab, exc] the call can end with
LoopRuns(t, fm, v, m, i) ==
  IF ~(i - NumBytes < num_iters)
  THEN {[merges |-> m, vocab |-> AddSpecials(v, special_tokens, i, 1), exc |-> "none"]}
  ELSE UNION {
         IF out.fm.exc # "none" THEN {[merges |-> m, vocab |-> v, exc |-> out.fm.exc]}
         ELSE IF out.ret = None
         THEN {[merges |-> Append(m, None), vocab |-> v, exc |-> "TypeError"]}
         ELSE IF out.ret[1] \notin DOMAIN v \/ out.ret[2] \notin DOMAIN v
         THEN {[merges |-> Append(m, out.ret), vocab |-> v, exc |-> "KeyError"]}
         ELSE LoopRuns(t, out.fm, DictSet(v, i, MergedBytes(v, out.ret)), Append(m, out.ret), i + 1)
         : out \in StepOf(t, fm, i)}

\* every way the call tokenizer t received can end when a freshly constructed
\* tokenizer receives it with the same arguments
FreshRuns(t) ==
  IF vocab_size < NumBytes + Len(special_tokens)
  THEN {[merges |-> <<>>, vocab |-> BaseVocab, exc |-> "ValueError"]}
  ELSE IF called[t] = "train_from_file"
  THEN IF special_tokens = <<>>
       THEN {[merges |-> <<>>, vocab |-> BaseVocab,
              exc |-> "ValueError: at least one special token required"]}
       ELSE LET chunk_gen == generate_text_chunks(text, special_tokens, FileChunkSize,
                                                  DelimLen(special_tokens) + FileOverlapExtra)
            IN UNION {LoopRuns(TRUE, FastMerger(count_tokens_multi(chunk_gen, FileNChunks, order)),
                               BaseVocab, <<>>, NumBytes)
                      : order \in DeliveryOrders(chunk_gen, FileNChunks)}
  ELSE LoopRuns(t, IF t THEN FastMerger(OriginalPretokens) ELSE BasicMerger(OriginalPretokens),
                BaseVocab, <<>>, NumBytes)

\* C15: whatever the tokenizer held before the call, a training call ends with the
\* Merges and Vocab (and the outcome) a freshly constructed tokenizer can end with
\* on the same arguments
C15_PriorStateIsForgotten ==
  \A t \in Tokenizers :
    CallOver(t) =>
      [merges |-> merges[t], vocab |-> vocab[t], exc |-> exc[t]] \in FreshRuns(t)

\* the naive tokenizer ended a call with at least one merge, and it held the
\* corrupted state that the tokenizer called after it still holds
C15_Witness ==
  /\ pc[FALSE] = "done" /\ Len(merges[FALSE]) >= 1
  /\ pc[TRUE] = "idle" /\ 999 \in DOMAIN vocab[TRUE] /\ merges[TRUE] # <<>>

PretokensWith(ptc, p) == {pt \in DOMAIN ptc : Occurrences(Pairs(pt), p) >= 1}

RECURSIVE Concat(_)
\* ''.join(list_of_strings)
Concat(l) == IF l = <<>> THEN <<>> ELSE Head(l) \o Concat(Tail(l))

RECURSIVE TokensOfEach(_)
\* the pretokens of each segment, one segment after the other
TokensOfEach(l) == IF l = <<>> THEN <<>> ELSE FindIter(Head(l), 1) \o TokensOfEach(Tail(l))

\* no pretoken of the concatenation crosses a segment boundary
NoCrossing(text_iter) == FindIter(Concat(text_iter), 1) = TokensOfEach(text_iter)

\* C17: whatever the worker count, the batching factor and the order in which the
\* batches come back, count_tokens_multi returns what count_tokens_single returns on
\* the concatenation of the segments, when no pretoken crosses a segment boundary
C17_MultiEqualsSingle ==
  (multi.pc = "returned" /\ NoCrossing(multi.text_iter)) =>
    multi.result = count_tokens_single(Concat(multi.text_iter))

\* a call returned after a later batch came back before an earlier one, on segments
\* that cut no pretoken and share a pretoken
C17_Witness ==
  /\ multi.pc = "returned"
  /\ NoCrossing(multi.text_iter)
  /\ \E i, j \in 1..Len(multi.arrived) : i < j /\ multi.arrived[i] > multi.arrived[j]
  /\ \E pt \in DOMAIN multi.result : multi.result[pt] >= 2

\* the non-empty pieces the whole text s falls into when it is split at every match
\* of the delimiter
SplitPieces(s, specials) ==
  LET ms == Finditer(s, 1, specials)
      piece(k) == Slice(s, IF k = 1 THEN 0 ELSE ms[k - 1][2],
                           IF k > Len(ms) THEN Len(s) ELSE ms[k][1])
  IN SelectSeq([k \in 1..(Len(ms) + 1) |-> piece(k)], LAMBDA x : x # <<>>)

\* C18: once the generator is exhausted it has yielded, in order, exactly the
\* non-empty pieces of the whole file text split at all delimiter matches
C18_ChunksAreThePieces ==
  chunks.pc = "exhausted" => chunks.out = SplitPieces(chunks.file, chunks.delimiter)

\* some special token of the delimiter occurs somewhere in s
ContainsDelimiter(s, specials) ==
  \E i \in 1..Len(s) : \E j \in 1..Len(specials) : MatchesAt(s, i, specials[j])

\* C19: no segment the generator has yielded contains a match of the delimiter
C19_NoDelimiterInSegments ==
  chunks.pc # "none" =>
    \A k \in 1..Len(chunks.out) : ~ContainsDelimiter(chunks.out[k], chunks.delimiter)

\* the generator is exhausted after a delimiter lay across two reads: the file was
\* read in pieces smaller than a two-character special token that occurs in it
C19_Witness ==
  /\ chunks.pc = "exhausted"
  /\ chunks.chunk_size = 1
  /\ Len(chunks.out) >= 2
  /\ \E i \in 1..Len(chunks.file) : \E j \in 1..Len(chunks.delimiter) :
       Len(chunks.delimiter[j]) = 2 /\ MatchesAt(chunks.file, i, chunks.delimiter[j])

\* C20: the generator never yields an empty string, and yields nothing for an
\* empty file
C20_NoEmptySegment ==
  chunks.pc # "none" =>
    /\ \A k \in 1..Len(chunks.out) : chunks.out[k] # <<>>
    /\ (chunks.pc = "exhausted" /\ chunks.file = <<>>) => chunks.out = <<>>

\* the generator is exhausted on a file that starts with a delimiter, ends with one
\* and has two delimiters back to back, and it yielded something
C20_Witness ==
  /\ chunks.pc = "exhausted"
  /\ Len(chunks.file) >= 4
  /\ chunks.file[1] = 124 /\ chunks.file[Len(chunks.file)] = 124
  /\ \E i \in 2..(Len(chunks.file) - 2) : chunks.file[i] = 124 /\ chunks.file[i + 1] = 124
  /\ chunks.out # <<>>

\* every occurrence of a special token in txt lies between two pretokens: the
\* pretokens of the stripped text are those of the pieces around the occurrences
BetweenPretokens(txt, specials) ==
  FindIter(Stripped(txt, specials), 1) = TokensOfEach(SplitPieces(txt, specials))

\* C21: train on a text and train_from_file on a file holding that text, with the
\* same vocab_size and specials, end with identical Merges and Vocab, whenever every
\* special-token occurrence in the text lies between pretoken boundaries (for
\* arguments both methods accept: at least one special token, vocab_size large enough)
C21_TrainEqualsTrainFromFile ==
  \A t \in Tokenizers :
    (/\ called[TRUE] = "train_from_file" /\ CallOver(TRUE) /\ ArgumentsAccepted(TRUE)
     /\ t # TRUE /\ called[t] = "train" /\ CallOver(t)
     /\ BetweenPretokens(text, special_tokens)) =>
      /\ merges[TRUE] = merges[t]
      /\ vocab[TRUE] = vocab[t]

\* C22: merging a pair inside a sequence replaces its occurrences left to right
\* without overlap, in _merge and in _merge_sequence: (a,a,a) becomes (X,a),
\* (a,a,a,a) becomes (X,X), and _merge_sequence puts _merge(old_seq, pair, new_id)
\* in the place of old_seq for every sequence
C22_MergeLeftToRight ==
  /\ unit.op = "_merge" =>
       \A a \in SeqIds :
         unit.pair = <<a, a>> =>
           /\ unit.old_seq = <<a, a, a>> => unit.ret = <<unit.new_ix, a>>
           /\ unit.old_seq = <<a, a, a, a>> => unit.ret = <<unit.new_ix, unit.new_ix>>
  /\ unit.op = "_merge_sequence" =>
       /\ unit.pc = "returned"
       /\ DOMAIN unit.fm.pretoken_count =
            (DOMAIN unit.before.pretoken_count \ {unit.old_seq})
              \cup {_merge(unit.old_seq, unit.pair, unit.new_ix)}

\* the state the last completed save_state wrote, when it wrote the file that the
\* load_state call just made reads
SavedForLoad ==
  IF io.op = "load_state" /\ io.pc \in {"returned", "raised"}
     /\ io.saved # <<>> /\ io.saved[1].name = PathName(io.prefix)
  THEN io.saved
  ELSE <<>>

\* C23: save_state(prefix, folder) followed by load_state(prefix, folder) on any
\* tokenizer leaves that tokenizer with Merges and Vocab equal to the saved ones
C23_LoadRestoresSaved ==
  SavedForLoad # <<>> =>
    /\ io.pc = "returned"
    /\ merges[io.t] = SavedForLoad[1].merges
    /\ vocab[io.t] = SavedForLoad[1].vocab

\* a tokenizer loaded what another tokenizer saved: three vocab entries, one of them
\* of two bytes, and two merges, none of which it held before
C23_Witness ==
  /\ SavedForLoad # <<>>
  /\ io.pc = "returned"
  /\ Len(SavedForLoad[1].merges) = 2
  /\ 256 \in DOMAIN SavedForLoad[1].vocab
  /\ io.before.merges # SavedForLoad[1].merges
  /\ io.before.vocab # SavedForLoad[1].vocab

\* C24: a load_state call that fails leaves Merges and Vocab of the tokenizer exactly
\* as they were before the call
C24_FailedLoadKeepsState ==
  (io.op = "load_state" /\ io.pc = "raised") =>
    /\ merges[io.t] = io.before.merges
    /\ vocab[io.t] = io.before.vocab

\* the state file of the save_state call that is running, was interrupted or has
\* returned, as a list of at most one element
SaveTarget == FileAt(fs, TargetName(PathName(io.prefix)))

\* the names of the files of the folder whose text is not a complete document
PartialFiles == {name \in DOMAIN fs.files : ~Load(fs.files[name]).ok}

\* C25: while save_state runs, and if it is interrupted at any point, the state file
\* is absent or holds its complete previous content; once save_state has returned it
\* holds the complete new content; partially written text exists only in the
\* temporary file of the call, which is another file of the same folder
C25_SaveIsAtomic ==
  (io.op = "save_state" /\ io.pc # "raised") =>
    /\ io.pc \in {"writing", "interrupted"} => SaveTarget = io.previous
    /\ io.pc = "returned" =>
         /\ SaveTarget = <<Dump(StateDocument(io.before.merges, io.before.vocab))>>
         /\ io.temp \notin DOMAIN fs.files
    /\ PartialFiles \subseteq {io.temp} \cup {TempName(PathName(prefix), random) :
                                               prefix \in PrefixChoices, random \in TempRandoms}
    /\ io.temp # TargetName(PathName(io.prefix))
    /\ SaveTarget # <<>> => Load(SaveTarget[1]).ok

\* a save over an existing state file was interrupted after it had written a part of
\* the new text
C25_Witness ==
  /\ io.op = "save_state"
  /\ io.pc = "interrupted"
  /\ io.previous # <<>>
  /\ io.todo # <<>>
  /\ Len(fs.files[io.temp]) >= 2

\* PairCount of the engine of tokenizer t: the counter the fast engine keeps, the one
\* the naive engine recounts at every step
PairCountOf(t) == IF t THEN pair_count ELSE _pairs_count(pretoken_count[t])

\* C26: whenever an engine is built or its last step completed, step(new_id) returns
\* none if and only if PairCount is empty; when it returns none it changes nothing,
\* and when PairCount is non-empty it returns a pair and never fails
C26_StepNoneIffNoPairs ==
  \A t \in Tokenizers :
    EngineOk(t) =>
      \A out \in StepOf(t, Merger(t), ix[t]) :
        /\ out.fm.exc = "none"
        /\ out.ret = None <=> DOMAIN PairCountOf(t) = {}
        /\ out.ret = None => out.fm = Merger(t)

\* the pairs of a sequence, as a set
PairSet(seq) == {Pairs(seq)[i] : i \in 1..Len(Pairs(seq))}

\* C27: _merge_sequence(old_seq, f, top_pair, new_id) completes without raising for
\* every pretoken containing top_pair; afterwards a neighbour pair of old_seq that no
\* pretoken holds any more is absent from PairCount and PairToPretokens, and each
\* incoming pair (u, new_id) / (new_id, v) has gained f times its occurrences in the
\* new sequence and has the new sequence in its adjacency set
C27_MergeSequenceCompletes ==
  unit.op = "_merge_sequence" =>
    LET new_seq == _merge(unit.old_seq, unit.pair, unit.new_ix)
        outgoing == PairSet(unit.old_seq) \ (PairSet(new_seq) \cup {unit.pair})
        incoming == {q \in PairSet(new_seq) : unit.new_ix \in {q[1], q[2]}}
    IN /\ unit.pc = "returned"
       /\ \A q \in outgoing :
            q \notin AllPairs(unit.fm.pretoken_count) =>
              /\ q \notin DOMAIN unit.fm.pair_count
              /\ q \notin DOMAIN unit.fm.pair_to_pretoken_set
       /\ \A q \in incoming :
            /\ CounterGet(unit.fm.pair_count, q) =
                 CounterGet(unit.before.pair_count, q)
                   + unit.freq * Occurrences(Pairs(new_seq), q)
            /\ q \in DOMAIN unit.fm.pair_to_pretoken_set
            /\ new_seq \in unit.fm.pair_to_pretoken_set[q]

\* PairCount[pair] + delta of the _update_pair call just made, absent key counted as 0
UpdatedCount == CounterGet(unit.before.pair_count, unit.pair) + unit.freq

\* C28: _update_pair(pair, delta) with delta # 0 and PairCount[pair] + delta > 0 sets
\* PairCount[pair] to that sum and pushes exactly one heap entry (sum, pair); no heap
\* entry is removed, PairToPretokens is unchanged and no other count changes
C28_UpdatePairPositive ==
  (unit.op = "_update_pair" /\ unit.freq # 0 /\ UpdatedCount > 0) =>
    /\ unit.pc = "returned"
    /\ DOMAIN unit.fm.pair_count = DOMAIN unit.before.pair_count \cup {unit.pair}
    /\ unit.fm.pair_count[unit.pair] = UpdatedCount
    /\ \A q \in DOMAIN unit.before.pair_count \ {unit.pair} :
         unit.fm.pair_count[q] = unit.before.pair_count[q]
    /\ \A e \in BagToSet(unit.fm.pair_heap) \cup BagToSet(unit.before.pair_heap) :
         CopiesIn(e, unit.fm.pair_heap) =
           CopiesIn(e, unit.before.pair_heap)
             + (IF e = HeapEntry(UpdatedCount, unit.pair) THEN 1 ELSE 0)
    /\ BagIn(HeapEntry(UpdatedCount, unit.pair), unit.fm.pair_heap)
    /\ unit.fm.pair_to_pretoken_set = unit.before.pair_to_pretoken_set

\* a second call brought a pair back to a count it had before, so that the heap
\* holds the same entry twice
C28_Witness ==
  /\ unit.op = "_update_pair" /\ unit.pc = "returned"
  /\ unit.freq # 0 /\ UpdatedCount > 0
  /\ CopiesIn(HeapEntry(UpdatedCount, unit.pair), unit.fm.pair_heap) = 2

\* C29: _update_pair(pair, delta) with PairCount[pair] + delta <= 0 removes pair from
\* PairCount and from PairToPretokens and leaves the heap exactly as it was; it
\* succeeds also when pair is in neither map
C29_UpdatePairDrops ==
  (unit.op = "_update_pair" /\ unit.freq # 0 /\ UpdatedCount <= 0) =>
    /\ unit.pc = "returned"
    /\ unit.pair \notin DOMAIN unit.fm.pair_count
    /\ unit.pair \notin DOMAIN unit.fm.pair_to_pretoken_set
    /\ unit.fm.pair_heap = unit.before.pair_heap

\* a pair that had a count, an adjacency set and a heap entry was dropped, and its
\* entry is still in the heap
C29_Witness ==
  /\ unit.op = "_update_pair" /\ unit.pc = "returned"
  /\ unit.freq # 0 /\ UpdatedCount <= 0
  /\ unit.pair \in DOMAIN unit.before.pair_count
  /\ unit.pair \in DOMAIN unit.before.pair_to_pretoken_set
  /\ BagIn(HeapEntry(unit.before.pair_count[unit.pair], unit.pair), unit.fm.pair_heap)

\* C30: _update_pair(pair, 0) is a no-op for every pair, present or absent: PairCount,
\* PairToPretokens and the heap are unchanged and no key is created
C30_UpdatePairZero ==
  (unit.op = "_update_pair" /\ unit.freq = 0) =>
    /\ unit.pc = "returned"
    /\ unit.fm.pair_count = unit.before.pair_count
    /\ unit.fm.pair_to_pretoken_set = unit.before.pair_to_pretoken_set
    /\ unit.fm.pair_heap = unit.before.pair_heap
    /\ unit.pair \notin DOMAIN unit.before.pair_count => unit.pair \notin DOMAIN unit.fm.pair_count

\* _update_pair(pair, 0) was called for a pair the engine holds, after an earlier
\* call had left a stale entry in the heap
C30_Witness ==
  /\ unit.op = "_update_pair" /\ unit.pc = "returned"
  /\ unit.freq = 0
  /\ unit.calls = 2
  /\ unit.pair \in DOMAIN unit.before.pair_count
  /\ \E e \in BagToSet(unit.fm.pair_heap) :
       CounterGet(unit.fm.pair_count, e.original_pair) # 0 - e.sort_index

\* 1 when the _update_pair(pair, freq) call on fm is made and leaves a positive count
Pushed(made, fm, pair, freq) ==
  IF made /\ freq # 0 /\ CounterGet(fm.pair_count, pair) + freq > 0 THEN 1 ELSE 0

RECURSIVE PositiveUpdates(_, _, _, _, _, _, _)
\* the number of _update_pair calls of _merge_sequence, from index i of old_seq on,
\* that leave a positive count; a call that raises makes no further _update_pair call
PositiveUpdates(fm, old_seq, seq_freq, top_pair, new_ix, i, nb) ==
  IF fm.exc # "none" \/ i > Len(old_seq) THEN 0
  ELSE IF i + 1 <= Len(old_seq) /\ <<old_seq[i], old_seq[i + 1]>> = top_pair
       THEN LET hasU == nb # <<>>
                u == nb[Len(nb)]
                hasV == i + 2 <= Len(old_seq)
                v == old_seq[i + 2]
                out_u == <<u, top_pair[1]>>
                out_v == <<top_pair[2], v>>
                f1 == IF hasU THEN Outgoing(fm, out_u, seq_freq, old_seq) ELSE fm
                f2 == IF hasV /\ f1.exc = "none"
                      THEN Outgoing(f1, out_v, seq_freq, old_seq) ELSE f1
                f3 == IF hasU /\ f2.exc = "none"
                      THEN _update_pair(f2, <<u, new_ix>>, seq_freq) ELSE f2
            IN Pushed(hasU, fm, out_u, 0 - seq_freq)
                 + Pushed(hasV /\ f1.exc = "none", f1, out_v, 0 - seq_freq)
                 + Pushed(hasU /\ f2.exc = "none", f2, <<u, new_ix>>, seq_freq)
                 + Pushed(hasV /\ f3.exc = "none", f3, <<new_ix, v>>, seq_freq)
                 + PositiveUpdates(MergeAt(fm, old_seq, seq_freq, top_pair, new_ix, i, nb),
                                   old_seq, seq_freq, top_pair, new_ix, i + 2,
                                   Append(nb, new_ix))
       ELSE PositiveUpdates(fm, old_seq, seq_freq, top_pair, new_ix, i + 1,
                            Append(nb, old_seq[i]))

\* C31: _merge_sequence and _update_pair never remove or rewrite a heap entry: every
\* entry in the heap before the call is in it afterwards with at least as many
\* copies, and across one _merge_sequence call the heap grows by exactly the number
\* of _update_pair calls whose resulting count is positive
C31_HeapOnlyGrows ==
  unit.op \in {"_merge_sequence", "_update_pair"} =>
    /\ unit.before.pair_heap \sqsubseteq unit.fm.pair_heap
    /\ unit.op = "_merge_sequence" =>
         BagCardinality(unit.fm.pair_heap) =
           BagCardinality(unit.before.pair_heap)
             + PositiveUpdates(unit.before, unit.old_seq, unit.freq, unit.pair,
                               unit.new_ix, 1, <<>>)
    /\ unit.op = "_update_pair" =>
         BagCardinality(unit.fm.pair_heap) =
           BagCardinality(unit.before.pair_heap)
             + Pushed(TRUE, unit.before, unit.pair, unit.freq)

\* a _merge_sequence call lowered the count of a neighbour pair that other
\* occurrences keep alive: the heap holds its old entry, now stale, and the new one
C31_Witness ==
  /\ unit.op = "_merge_sequence" /\ unit.pc = "returned"
  /\ \E q \in DOMAIN unit.before.pair_count \cap DOMAIN unit.fm.pair_count :
       /\ unit.fm.pair_count[q] < unit.before.pair_count[q]
       /\ BagIn(HeapEntry(unit.before.pair_count[q], q), unit.fm.pair_heap)
       /\ BagIn(HeapEntry(unit.fm.pair_count[q], q), unit.fm.pair_heap)

\* the heap entries _most_common_pair popped and threw away before it returned top
Discarded(fm, top) == (fm.pair_heap (-) top.fm.pair_heap) (-) SetToBag({HeapEntry(top.count, top.pair)})

\* C32: whenever the fast engine has completed its initialisation or a step and
\* PairCount is non-empty, _most_common_pair terminates with a pair: it does not
\* run out of heap entries, every entry it discarded is stale (its count is not the
\* current count of its pair), the pair it returns is a key of PairCount with the
\* returned count, and PairCount is left as it was
C32_MostCommonPairSkipsStale ==
  (EngineOk(TRUE) /\ DOMAIN pair_count # {}) =>
    LET top == _most_common_pair(Merger(TRUE))
    IN /\ top.fm.exc = "none"
       /\ top.pair \in DOMAIN pair_count
       /\ pair_count[top.pair] = top.count
       /\ top.fm.pair_count = pair_count
       /\ top.fm.pair_heap \sqsubseteq pair_heap
       /\ \A e \in BagToSet(Discarded(Merger(TRUE), top)) :
            CounterGet(pair_count, e.original_pair) # 0 - e.sort_index

\* C33: the worker pool of train_from_file is released on every exit path: once the
\* call has returned or raised, after a normal end, an early stop or an error of
\* the chunk reader or a worker, no pool worker is alive; the merge engine is built
\* and run only after the pool is released, never while a worker is alive
C33_PoolReleased ==
  /\ (called[TRUE] = "train_from_file" /\ pc[TRUE] \in {"done", "raised"}) =>
       (multi.pc = "none" \/ multi.workers = 0)
  /\ pc[TRUE] = "loop" => multi.workers = 0
  /\ (multi.pc # "none" /\ multi.workers > 0) =>
       /\ pc[TRUE] = "pretokenize"
       /\ pretoken_count[TRUE] = EmptyDict
       /\ pair_count = EmptyDict
       /\ pair_heap = EmptyBag

\* the chunk reader raised after a batch had come back, and the call has raised
C33_Witness ==
  /\ called[TRUE] = "train_from_file"
  /\ pc[TRUE] = "raised"
  /\ exc[TRUE] \in PoolErrors
  /\ multi.pc = "raised"
  /\ multi.arrived # <<>>
  /\ multi.workers = 0

\* the adjacent pairs of seq that are keys of pair_to_idx
Mergeable(seq, pair_to_idx) == PairSet(seq) \cap DOMAIN pair_to_idx

\* what holds at every moment of an encode_pretoken call
EncodeSafe ==
  /\ unit.pair_and_id = None <=> Mergeable(unit.pretoken, unit.pair_to_idx) = {}
  /\ unit.iters > 0 =>
       /\ unit.merged[1] \in Mergeable(unit.prev, unit.pair_to_idx)
       /\ unit.merged[2] = unit.pair_to_idx[unit.merged[1]]
       /\ \A q \in Mergeable(unit.prev, unit.pair_to_idx) :
            unit.pair_to_idx[q] >= unit.merged[2]
       /\ unit.pretoken = _merge(unit.prev, unit.merged[1], unit.merged[2])
       /\ Len(unit.pretoken) < Len(unit.prev)
  /\ Len(unit.pretoken) + unit.iters <= Len(unit.arg)
  /\ unit.pc = "returned" =>
       /\ Mergeable(unit.pretoken, unit.pair_to_idx) = {}
       /\ Mergeable(unit.arg, unit.pair_to_idx) = {} => unit.pretoken = unit.arg

\* C34: encode_pretoken terminates for every pretoken and every pair_to_idx; each
\* iteration merges the adjacent pair of the current sequence with the lowest index
\* in pair_to_idx (get_lowest_rank_pair returns none exactly when no adjacent pair
\* is a key), the returned sequence has no adjacent pair that is a key, and a
\* pretoken with no mergeable pair is returned unchanged
C34_EncodePretokenTerminates ==
  /\ []EncodeSafe
  /\ <>(unit.pc = "returned")

\* a call returned after two merges, the first one of a pair that was not the
\* leftmost mergeable pair of the pretoken but had the lower index
C34_Witness ==
  /\ unit.pc = "returned"
  /\ unit.iters = 2
  /\ \E i \in 1..Len(Pairs(unit.arg)) :
       /\ Pairs(unit.arg)[i] \in DOMAIN unit.pair_to_idx
       /\ \E j \in (i + 1)..Len(Pairs(unit.arg)) :
            /\ Pairs(unit.arg)[j] \in DOMAIN unit.pair_to_idx
            /\ unit.pair_to_idx[Pairs(unit.arg)[j]] < unit.pair_to_idx[Pairs(unit.arg)[i]]

\* tokenizer t's last step returned a pair and train went on: the pair it returned
StepReturned(t) == pc[t] \in {"loop", "done"} /\ merges[t] # <<>>
LastMerged(t) == merges[t][Len(merges[t])]

\* C35: after step(new_id) has returned top_pair, no pretoken of PretokenCount
\* contains top_pair as two adjacent ids (every pretoken that contained it has been
\* rewritten), and in the fast engine top_pair is a key of neither PairCount nor
\* PairToPretokens
C35_TopPairIsGone ==
  \A t \in Tokenizers :
    StepReturned(t) =>
      /\ LastMerged(t) \notin AllPairs(pretoken_count[t])
      /\ t => /\ LastMerged(t) \notin DOMAIN pair_count
              /\ LastMerged(t) \notin DOMAIN pair_to_pretoken_set

\* C36: after initialisation and after every completed step, PairToPretokens is
\* complete: every pretoken PT of PretokenCount is a member of PairToPretokens[p]
\* for every pair p adjacent in PT
C36_AdjacencyComplete ==
  EngineOk(TRUE) =>
    \A pt \in DOMAIN pretoken_count[TRUE] :
      \A p \in PairSet(pt) :
        /\ p \in DOMAIN pair_to_pretoken_set
        /\ pt \in pair_to_pretoken_set[p]

\* a step rewrote one of two pretokens that shared a neighbour pair of top_pair: the
\* rewritten pretoken is in the sets of its new pairs, the other one still in its own
C36_Witness ==
  /\ StepReturned(TRUE)
  /\ Cardinality(DOMAIN pretoken_count[TRUE]) >= 2
  /\ \E pt \in DOMAIN pretoken_count[TRUE] :
       /\ ix[TRUE] - 1 \in Ids(pt)
       /\ Len(pt) >= 2
  /\ \E pt \in DOMAIN pretoken_count[TRUE] :
       /\ ix[TRUE] - 1 \notin Ids(pt)
       /\ Len(pt) >= 2

\* C37: after initialisation and after every completed step, every pretoken that
\* is a member of a PairToPretokens set is a current key of PretokenCount: no
\* rewritten old sequence is left behind in any set
C37_SetMembersAreCurrent ==
  EngineOk(TRUE) =>
    \A p \in DOMAIN pair_to_pretoken_set :
      pair_to_pretoken_set[p] \subseteq DOMAIN pretoken_count[TRUE]

RECURSIVE TotalFreq(_, _)
\* the sum of the frequencies of the pretokens in todo
TotalFreq(ptc, todo) ==
  IF todo = {} THEN 0
  ELSE LET pt == CHOOSE pt \in todo : TRUE
       IN ptc[pt] + TotalFreq(ptc, todo \ {pt})

\* from the counter old to the counter new, the pretokens holding top were rewritten
\* with new_id and kept their frequency (all of them when all is set, else some were
\* left as they were), and the pretokens not holding top are as they were
RewrittenBy(old, new, top, new_id, all) ==
  \A pt \in DOMAIN old :
    LET new_pt == _merge(pt, top, new_id)
    IN IF top \in PairSet(pt)
       THEN \/ pt \notin DOMAIN new /\ new_pt \in DOMAIN new /\ new[new_pt] = old[pt]
            \/ ~all /\ pt \in DOMAIN new /\ new[pt] = old[pt]
       ELSE pt \in DOMAIN new /\ new[pt] = old[pt]

\* C38: with a fresh new_id no two pretokens collide on one new sequence: every step
\* of either engine preserves the number of keys of PretokenCount and the sum of the
\* frequencies, each rewritten pretoken keeps its frequency, the pretokens that do
\* not contain top_pair are untouched, and the collision assertion of
\* BasicMerger.step never fires
C38_NoCollision ==
  [][\A t \in Tokenizers :
       pc[t] = "loop" =>
         /\ Cardinality(DOMAIN pretoken_count'[t]) = Cardinality(DOMAIN pretoken_count[t])
         /\ TotalFreq(pretoken_count'[t], DOMAIN pretoken_count'[t])
              = TotalFreq(pretoken_count[t], DOMAIN pretoken_count[t])
         /\ exc'[FALSE] # "AssertionError"
         /\ \E top \in AllPairs(pretoken_count[t]) \cup {None} :
              RewrittenBy(pretoken_count[t], pretoken_count'[t], top, ix[t],
                          exc'[t] = "none")
         /\ (pc'[t] = "loop" /\ Len(merges'[t]) > Len(merges[t])) =>
              RewrittenBy(pretoken_count[t], pretoken_count'[t], LastMerged(t)', ix[t], TRUE)
    ]_vars

\* a step has rewritten two pretokens that held top_pair
C38_Witness ==
  \E t \in Tokenizers :
    /\ StepReturned(t)
    /\ \E a, b \in DOMAIN pretoken_count[t] :
         /\ a # b
         /\ ix[t] - 1 \in Ids(a)
         /\ ix[t] - 1 \in Ids(b)

\* the pairs tokenizer t has merged so far
MergedPairs(t) == {merges[t][i] : i \in 1..Len(merges[t])} \ {None}

\* C39: a pair that has been merged is not a key of PairCount after the step that
\* merged it nor later, and is never selected again whatever stale or duplicate
\* heap entries remain: Merges contains no pair twice
C39_MergedPairStaysOut ==
  /\ EngineOk(TRUE) => MergedPairs(TRUE) \cap DOMAIN pair_count = {}
  /\ \A t \in Tokenizers :
       pc[t] \in {"loop", "done"} =>
         \A i, j \in 1..Len(merges[t]) : i # j => merges[t][i] # merges[t][j]

RECURSIVE TotalIds(_, _)
\* the number of ids over the pretokens in todo
TotalIds(ptc, todo) ==
  IF todo = {} THEN 0
  ELSE LET pt == CHOOSE pt \in todo : TRUE
       IN Len(pt) + TotalIds(ptc, todo \ {pt})

\* the sum over the pretokens of (length - 1)
MergeBudget(ptc) == TotalIds(ptc, DOMAIN ptc) - Cardinality(DOMAIN ptc)

\* the outcomes of the next step of tokenizer t's engine
NextStep(t) == IF t THEN step(Merger(t), ix[t]) ELSE BasicMerger_step(Merger(t), ix[t])

\* a step that returned a pair shortened a pretoken and lengthened none
StepShortens(t) ==
  (pc[t] = "loop" /\ pc'[t] = "loop" /\ Len(merges'[t]) > Len(merges[t])) =>
    /\ TotalIds(pretoken_count'[t], DOMAIN pretoken_count'[t])
         < TotalIds(pretoken_count[t], DOMAIN pretoken_count[t])
    /\ \A pt \in DOMAIN pretoken_count[t] :
         Len(_merge(pt, LastMerged(t)', ix[t])) <= Len(pt)

\* the successful steps are at most the sum of (length - 1) over the initial
\* pretokens; once no pretoken has a pair left PairCount is empty and step
\* returns none, leaving the engine as it is
StepsRunOut(t) ==
  pc[t] \in {"loop", "done"} =>
    /\ Len(merges[t]) <= MergeBudget(OriginalPretokens)
    /\ AllPairs(pretoken_count[t]) = {} =>
         /\ t => DOMAIN pair_count = {}
         /\ \A out \in NextStep(t) : out.ret = None /\ out.fm = Merger(t)

\* C40: every step that returns a pair strictly shortens at least one pretoken and
\* lengthens none, so the total number of ids strictly decreases; the number of
\* successful steps is at most the sum over the pretokens of (length - 1), after
\* which PairCount is empty and step returns none on every later call
C40_StepsShortenAndRunOut ==
  /\ [][\A t \in Tokenizers : StepShortens(t)]_vars
  /\ [](\A t \in Tokenizers : StepsRunOut(t))

====
